---- MODULE Spec2Model ----
(***************************************************************************)
(* Authorization and token-lifecycle subsystem of the task-manager backend:*)
(* access/refresh token issuance and rotation (services/auth.go,           *)
(* utils/jwt.go), the gin middleware chain (middleware/auth.go) and the    *)
(* handler-level ownership checks (handlers/task.go).                      *)
(*                                                                         *)
(* Time is counted in hours.  Strings that the code only compares are      *)
(* modelled as TLA+ strings; a refresh-token string, an access-token       *)
(* string and an Authorization header are modelled by their structure so   *)
(* that parsing them is a computation.                                     *)
(***************************************************************************)
EXTENDS Integers, Sequences, FiniteSets, TLC

VARIABLES
    now,        \* the wall clock, time.Now()
    users,      \* table users: the ids of the stored users
    userRoles,  \* table user_roles: user id -> set of role names
    tokens,     \* table tokens: the refresh-token rows
    nextUUID,   \* number of uuid.NewV4() values drawn for refresh-token rows
    rw,         \* one record per concurrent POST /auth/refresh request
    login,      \* the response to the latest POST /auth/login
    redeemed,   \* history: refresh-token values a completed call redeemed
    tasks,      \* table tasks: task id -> row
    req         \* the request travelling through the gin handler chain

vars == <<now, users, userRoles, tokens, nextUUID, rw, login, redeemed, tasks, req>>

-----------------------------------------------------------------------------
(* Bounds of the model *)

MaxTime == 2

MaxTokens == 3

\* The task table holds at most this many rows
MaxTasks == 3

(* Program constants, in hours *)

AccessTTL == 1

RefreshTTL == 1

-----------------------------------------------------------------------------
(* The seeded store *)

UserIds == {"admin", "alice", "bob"}

RoleNames == {"admin", "user"}

Permission(resource, action) == resource \o ":" \o action

TaskPermissions ==
    { Permission("tasks", a) : a \in {"create", "read", "update", "delete"} }

UserPermissions ==
    { Permission("users", a) : a \in {"read", "update", "delete"} }

AllPermissions == TaskPermissions \cup UserPermissions

PermissionRow(resource, action) == [resource |-> resource, action |-> action]

\* The permissions table as 001_roles_and_permissions.sql fills it
Permissions001 ==
    { PermissionRow("tasks", a) : a \in {"create", "read", "update", "delete"} }
    \cup { PermissionRow("users", a) : a \in {"read", "update", "delete"} }

\* The permissions table as 000006_create_permissions_table.up.sql fills it
Permissions000006 ==
    { PermissionRow("tasks", a) : a \in {"create", "read", "update", "delete"} }
    \cup { PermissionRow("users", a) : a \in {"create", "read", "update", "delete"} }
    \cup { PermissionRow("roles", a) : a \in {"assign", "revoke"} }

\* The user role's INSERT ... SELECT without the resource in its WHERE clause
AssignDefaultPermissionsByAction(permissions, role) ==
    IF role = "admin" THEN permissions
    ELSE IF role = "user"
    THEN {p \in permissions : p.action \in {"create", "read", "update", "delete"}}
    ELSE {}

\* The two INSERT INTO role_permissions ... SELECT ... FROM permissions of the
\* migration: every row for admin, the rows WHERE resource = 'tasks' AND
\* action IN ('create', 'read', 'update', 'delete') for user.
AssignDefaultPermissions(permissions, role) ==
    IF role = "admin" THEN permissions
    ELSE IF role = "user"
    THEN {p \in permissions :
             p.resource = "tasks"
             /\ p.action \in {"create", "read", "update", "delete"}}
    ELSE {}

\* role_permissions as the migration seeds it
RolePermissions(role) ==
    { Permission(p.resource, p.action) :
          p \in AssignDefaultPermissions(Permissions001, role) }

\* user_roles as seeded: the admin user, and the role given at registration
SeedUserRoles ==
    [u \in UserIds |-> IF u = "admin" THEN {"admin"} ELSE {"user"}]

Username(u) == u

-----------------------------------------------------------------------------
(* utils/jwt.go *)

ErrInvalidToken == "invalid token"

ErrExpiredToken == "token has expired"

EnvJWTSecret == ""

getJWTSecret == IF EnvJWTSecret = "" THEN "your-secret-key" ELSE EnvJWTSecret

NoClaims ==
    [user_id |-> "", username |-> "", roles |-> <<>>, permissions |-> <<>>,
     iat |-> 0, exp |-> 0]

\* A piece of text as the code handles it: a word s without spaces, or an
\* access-token string, which is known by the claims it encodes and the key
\* that signed it.  Garbage is a word that is no JWT; NoToken is the empty
\* string.
Word(s) == [t |-> "w", s |-> s, claims |-> NoClaims, sig |-> ""]

Jwt(claims, key) == [t |-> "jwt", s |-> "", claims |-> claims, sig |-> key]

Garbage == Word("not.a.jwt")

NoToken == Word("")

GenerateAccessToken(userID, username, roles, permissions, t) ==
    Jwt([user_id |-> userID, username |-> username, roles |-> roles,
         permissions |-> permissions, iat |-> t, exp |-> t + AccessTTL],
        getJWTSecret)

\* A parse that also asks the store for the user of the token
ParseWithClaimsOfStoredUser(tokenString, t) ==
    IF tokenString.t # "jwt" THEN "token is malformed"
    ELSE IF tokenString.sig # getJWTSecret THEN "signature is invalid"
    ELSE IF ~(t < tokenString.claims.exp) THEN "token is expired"
    ELSE IF tokenString.claims.user_id \notin users THEN "token is malformed"
    ELSE "nil"

\* jwt.ParseWithClaims (golang-jwt v5): segments are decoded first, the
\* signature is verified next, the registered claims (exp) last.
ParseWithClaims(tokenString, t) ==
    IF tokenString.t # "jwt" THEN "token is malformed"
    ELSE IF tokenString.sig # getJWTSecret THEN "signature is invalid"
    ELSE IF ~(t < tokenString.claims.exp) THEN "token is expired"
    ELSE "nil"

\* ValidateAccessToken with the expiry looked at before the signature
ValidateAccessTokenExpiryFirst(tokenString, t) ==
    IF tokenString.t # "jwt" THEN [claims |-> NoClaims, err |-> ErrInvalidToken]
    ELSE IF ~(t < tokenString.claims.exp)
         THEN [claims |-> NoClaims, err |-> ErrExpiredToken]
    ELSE IF tokenString.sig # getJWTSecret
         THEN [claims |-> NoClaims, err |-> ErrInvalidToken]
    ELSE [claims |-> tokenString.claims, err |-> "nil"]

ValidateAccessToken(tokenString, t) ==
    LET err == ParseWithClaims(tokenString, t) IN
    IF err # "nil"
    THEN IF err = "token is expired"
         THEN [claims |-> NoClaims, err |-> ErrExpiredToken]
         ELSE [claims |-> NoClaims, err |-> ErrInvalidToken]
    ELSE [claims |-> tokenString.claims, err |-> "nil"]

-----------------------------------------------------------------------------
(* services/auth.go: credentials *)

Password(u) == u \o "123"

Hash(plainPassword) == <<"bcrypt", plainPassword>>

\* users.password as stored at registration
StoredPassword(u) == Hash(Password(u))

VerifyPassword(hashedPassword, plainPassword) ==
    hashedPassword = Hash(plainPassword)

\* LoginUser with an error of its own for a username that is not there
LoginUserTellsUnknown(username, password, dbOK) ==
    IF ~dbOK THEN "internal server error"
    ELSE IF username \notin users THEN "user not found"
    ELSE IF ~VerifyPassword(StoredPassword(username), password)
         THEN "invalid username or password"
    ELSE "nil"

\* LoginUser: the error it returns ("nil" for success); dbOK is the outcome of
\* the store read.
LoginUser(username, password, dbOK) ==
    IF ~dbOK THEN "internal server error"
    ELSE IF username \notin users THEN "invalid username or password"
    ELSE IF ~VerifyPassword(StoredPassword(username), password)
         THEN "invalid username or password"
    ELSE "nil"

-----------------------------------------------------------------------------
(* services/auth.go: refresh-token rows and strings *)

\* A refresh-token string as a client sends it: the empty string, a
\* well-formed UUID (its value is id), or any other text.
UUIDString(n) == [kind |-> "uuid", id |-> n]

EmptyString == [kind |-> "empty", id |-> 0]

OtherText == [kind |-> "text", id |-> 0]

RefreshStrings == {UUIDString(n) : n \in 1..MaxTokens} \cup {EmptyString, OtherText}

\* uuid.FromString
FromString(s) ==
    IF s.kind = "uuid" THEN [uuid |-> s.id, err |-> "nil"]
    ELSE [uuid |-> 0, err |-> "uuid: incorrect UUID format"]

NoRow == [id |-> 0, user_id |-> "", refresh_token |-> 0, expires_at |-> 0]

\* db.Where("refresh_token = ?", tokenUUID).First(&token)
FindToken(tokenUUID) ==
    IF \E r \in tokens : r.refresh_token = tokenUUID
    THEN CHOOSE r \in tokens : r.refresh_token = tokenUUID
    ELSE NoRow

\* GenerateToken returning the pair although db.Create failed
GenerateTokenIgnoresCreateError(userID, username, dbOK) ==
    LET accessToken == GenerateAccessToken(userID, username, <<>>, <<>>, now)
        refreshToken == nextUUID + 1
        token == [id |-> refreshToken, user_id |-> userID,
                  refresh_token |-> refreshToken,
                  expires_at |-> now + RefreshTTL]
    IN  [access |-> accessToken, refresh |-> UUIDString(refreshToken),
         err |-> "nil",
         rows |-> IF dbOK THEN tokens \cup {token} ELSE tokens]

\* GenerateToken: the access token carries no roles and no permissions (the
\* call passes the user id and the username only); the refresh token is a new
\* UUID stored in a new row.  dbOK is the outcome of db.Create.
GenerateToken(userID, username, dbOK) ==
    LET accessToken == GenerateAccessToken(userID, username, <<>>, <<>>, now)
        refreshToken == nextUUID + 1
        token == [id |-> refreshToken, user_id |-> userID,
                  refresh_token |-> refreshToken,
                  expires_at |-> now + RefreshTTL]
    IN  IF ~dbOK
        THEN [access |-> NoToken, refresh |-> EmptyString,
              err |-> "failed to store refresh token", rows |-> tokens]
        ELSE [access |-> accessToken, refresh |-> UUIDString(refreshToken),
              err |-> "nil", rows |-> tokens \cup {token}]

\* History kept with an issued pair: the roles and the permissions the user
\* holds in the store at the moment of issuance.
Held(userID) ==
    [roles |-> userRoles[userID],
     permissions |-> UNION {RolePermissions(r) : r \in userRoles[userID]}]

NoHeld == [roles |-> {}, permissions |-> {}]

-----------------------------------------------------------------------------
(* handlers: POST /auth/login *)

Usernames == {"alice", "mallory", ""}

NoLogin ==
    [username |-> "", status |-> 0, err |-> "nil", access |-> NoToken,
     refresh |-> EmptyString, held |-> NoHeld]

\* AuthHandler.Token: the body is bound (both fields are required), then
\* LoginUser, then GenerateToken.  readOK and createOK are the outcomes of the
\* two store calls.
Token(username, password, readOK, createOK) ==
    LET err == LoginUser(username, password, readOK)
        g == GenerateToken(username, Username(username), createOK)
    IN  IF username = "" \/ password = ""
        THEN /\ login' = [NoLogin EXCEPT !.status = 400,
                                         !.err = "invalid request body"]
             /\ UNCHANGED <<tokens, nextUUID>>
        ELSE IF err # "nil"
        THEN /\ login' = [NoLogin EXCEPT !.username = username,
                                         !.status = 401, !.err = err]
             /\ UNCHANGED <<tokens, nextUUID>>
        ELSE /\ nextUUID < MaxTokens
             /\ tokens' = g.rows
             /\ nextUUID' = nextUUID + 1
             /\ login' =
                  IF g.err # "nil"
                  THEN [NoLogin EXCEPT !.username = username, !.status = 500,
                                       !.err = "failed to generate tokens"]
                  ELSE [username |-> username, status |-> 200, err |-> "nil",
                        access |-> g.access, refresh |-> g.refresh,
                        held |-> Held(username)]

Login(username, password, readOK, createOK) ==
    /\ Token(username, password, readOK, createOK)
    /\ UNCHANGED <<now, users, userRoles, rw, redeemed, tasks, req>>

-----------------------------------------------------------------------------
(* handlers: POST /auth/refresh, one store call per step *)

Workers == {"w1", "w2"}

IdleWorker ==
    [pc |-> "idle", v |-> EmptyString, row |-> NoRow, user |-> "",
     access |-> NoToken, refresh |-> EmptyString, err |-> "nil", status |-> 0,
     held |-> NoHeld, afterRedeemed |-> FALSE, afterDeleted |-> FALSE, overlapped |-> FALSE,
     delFailed |-> FALSE]

InFlight(w) == rw[w].pc \notin {"idle", "done"}

\* Requests are handed to the workers in order: the second worker takes a
\* request only while the first one is busy.
Free(w) ==
    /\ rw[w].pc \in {"idle", "done"}
    /\ w = "w1" \/ InFlight("w1")

\* RefreshHandler.Refresh: the status the handler answers for the error the
\* service returned.
RefreshStatus(err) == IF err # "nil" THEN 401 ELSE 200

\* A call ends: the service returns err and the handler answers.
Return(rec, err) ==
    [rec EXCEPT !.pc = "done", !.err = err, !.status = RefreshStatus(err),
                !.row = NoRow, !.user = "",
                !.access = IF err = "nil" THEN rec.access ELSE NoToken,
                !.refresh = IF err = "nil" THEN rec.refresh ELSE EmptyString,
                !.held = IF err = "nil" THEN rec.held ELSE NoHeld]

\* RefreshToken with an error of its own for a row that is not there
RefreshLookupTellsAbsent(w, v, dbOK) ==
    /\ Free(w)
    /\ LET others == {o \in Workers \ {w} : InFlight(o) /\ rw[o].v = v}
           start == [IdleWorker EXCEPT
                        !.v = v,
                        !.afterRedeemed = v \in redeemed.ok,
                        !.afterDeleted = v \in redeemed.deleted,
                        !.overlapped = others # {}]
           parsed == FromString(v)
           token == FindToken(parsed.uuid)
           mine == IF v.kind = "empty"
                     THEN [start EXCEPT !.pc = "done", !.status = 400,
                                        !.err = "invalid request body"]
                   ELSE IF parsed.err # "nil"
                     THEN Return(start, "invalid refresh token")
                   ELSE IF ~dbOK
                     THEN Return(start, "internal server error")
                   ELSE IF token = NoRow
                     THEN Return(start, "refresh token not found")
                   ELSE [start EXCEPT !.pc = "found", !.row = token]
       IN  rw' = [o \in Workers |->
                    IF o = w THEN mine
                    ELSE IF o \in others THEN [rw[o] EXCEPT !.overlapped = TRUE]
                    ELSE rw[o]]
    /\ UNCHANGED <<now, users, userRoles, tokens, nextUUID, login, redeemed,
                   tasks, req>>

\* The request body is bound (refresh_token is required), the value is parsed
\* and the row is looked up.
RefreshLookup(w, v, dbOK) ==
    /\ Free(w)
    /\ LET others == {o \in Workers \ {w} : InFlight(o) /\ rw[o].v = v}
           start == [IdleWorker EXCEPT
                        !.v = v,
                        !.afterRedeemed = v \in redeemed.ok,
                        !.afterDeleted = v \in redeemed.deleted,
                        !.overlapped = others # {}]
           parsed == FromString(v)
           token == FindToken(parsed.uuid)
           mine == IF v.kind = "empty"
                     THEN [start EXCEPT !.pc = "done", !.status = 400,
                                        !.err = "invalid request body"]
                   ELSE IF parsed.err # "nil"
                     THEN Return(start, "invalid refresh token")
                   ELSE IF ~dbOK
                     THEN Return(start, "internal server error")
                   ELSE IF token = NoRow
                     THEN Return(start, "invalid refresh token")
                   ELSE [start EXCEPT !.pc = "found", !.row = token]
       IN  rw' = [o \in Workers |->
                    IF o = w THEN mine
                    ELSE IF o \in others THEN [rw[o] EXCEPT !.overlapped = TRUE]
                    ELSE rw[o]]
    /\ UNCHANGED <<now, users, userRoles, tokens, nextUUID, login, redeemed,
                   tasks, req>>

\* The expiry check taking the instant of expiry for expired
ExpiredAtInstant(token, t) == t >= token.expires_at

\* time.Now().After(token.ExpiresAt)
Expired(token, t) == t > token.expires_at

\* RefreshToken deleting the row it refuses
RefreshGetUserDropsRow(w, dbOK) ==
    /\ rw[w].pc = "found"
    /\ rw' = [rw EXCEPT ![w] =
                IF Expired(rw[w].row, now)
                  THEN Return(@, "refresh token expired")
                ELSE IF ~dbOK \/ rw[w].row.user_id \notin users
                  THEN Return(@, "internal server error")
                ELSE [@ EXCEPT !.pc = "user", !.user = rw[w].row.user_id]]
    /\ tokens' = IF Expired(rw[w].row, now) \/ ~dbOK
                      \/ rw[w].row.user_id \notin users
                 THEN {r \in tokens : r.id # rw[w].row.id}
                 ELSE tokens
    /\ UNCHANGED <<now, users, userRoles, nextUUID, login, redeemed,
                   tasks, req>>

\* The expiry is checked against the clock, then the owning user is loaded.
RefreshGetUser(w, dbOK) ==
    /\ rw[w].pc = "found"
    /\ rw' = [rw EXCEPT ![w] =
                IF Expired(rw[w].row, now)
                  THEN Return(@, "refresh token expired")
                ELSE IF ~dbOK \/ rw[w].row.user_id \notin users
                  THEN Return(@, "internal server error")
                ELSE [@ EXCEPT !.pc = "user", !.user = rw[w].row.user_id]]
    /\ UNCHANGED <<now, users, userRoles, tokens, nextUUID, login, redeemed,
                   tasks, req>>

\* RefreshToken minting the pair for the user of the latest login
RefreshGenerateForLatestLogin(w, dbOK) ==
    /\ rw[w].pc = "user"
    /\ nextUUID < MaxTokens
    /\ LET user == IF login.username \in users THEN login.username
                   ELSE rw[w].user
           g == GenerateToken(user, Username(user), dbOK)
       IN  /\ tokens' = g.rows
           /\ nextUUID' = nextUUID + 1
           /\ rw' = [rw EXCEPT ![w] =
                       IF g.err # "nil" THEN Return(@, g.err)
                       ELSE [@ EXCEPT !.pc = "minted", !.access = g.access,
                                      !.refresh = g.refresh,
                                      !.held = Held(user)]]
    /\ UNCHANGED <<now, users, userRoles, login, redeemed, tasks, req>>

\* The new pair is minted and its row is stored.
RefreshGenerate(w, dbOK) ==
    /\ rw[w].pc = "user"
    /\ nextUUID < MaxTokens
    /\ LET g == GenerateToken(rw[w].user, Username(rw[w].user), dbOK)
       IN  /\ tokens' = g.rows
           /\ nextUUID' = nextUUID + 1
           /\ rw' = [rw EXCEPT ![w] =
                       IF g.err # "nil" THEN Return(@, g.err)
                       ELSE [@ EXCEPT !.pc = "minted", !.access = g.access,
                                      !.refresh = g.refresh,
                                      !.held = Held(rw[w].user)]]
    /\ UNCHANGED <<now, users, userRoles, login, redeemed, tasks, req>>

\* RefreshToken without the delete of the old row
DeleteTokenKeepsRow(row) == tokens

\* db.Delete(&token): the row with the loaded row's primary key is removed,
\* if it is still there.
DeleteToken(row) == {r \in tokens : r.id # row.id}

\* RefreshToken failing the call when the delete of the old row fails
RefreshDeleteFailsTheCall(w, dbOK) ==
    /\ rw[w].pc = "minted"
    /\ tokens' = IF dbOK THEN DeleteToken(rw[w].row) ELSE tokens
    /\ rw' = [rw EXCEPT ![w] =
                IF dbOK THEN Return(@, "nil")
                ELSE Return([@ EXCEPT !.delFailed = TRUE],
                            "internal server error")]
    /\ redeemed' =
         IF dbOK THEN [ok |-> redeemed.ok \cup {rw[w].v},
                       deleted |-> redeemed.deleted \cup {rw[w].v}]
         ELSE redeemed
    /\ UNCHANGED <<now, users, userRoles, nextUUID, login, tasks, req>>

\* The old row is deleted; a store error is logged and the call succeeds
\* all the same.
RefreshDelete(w, dbOK) ==
    /\ rw[w].pc = "minted"
    /\ tokens' = IF dbOK THEN DeleteToken(rw[w].row) ELSE tokens
    /\ rw' = [rw EXCEPT ![w] = Return([@ EXCEPT !.delFailed = ~dbOK], "nil")]
    /\ redeemed' =
         [ok |-> redeemed.ok \cup {rw[w].v},
          deleted |-> IF dbOK THEN redeemed.deleted \cup {rw[w].v}
                      ELSE redeemed.deleted]
    /\ UNCHANGED <<now, users, userRoles, nextUUID, login, tasks, req>>

-----------------------------------------------------------------------------
(* The clock *)

Tick ==
    /\ now < MaxTime
    /\ now' = now + 1
    /\ UNCHANGED <<users, userRoles, tokens, nextUUID, rw, login, redeemed,
                   tasks, req>>

-----------------------------------------------------------------------------
(* middleware/auth.go: the request context *)

Space == [t |-> "sp", s |-> " ", claims |-> NoClaims, sig |-> ""]

\* strings.Split(s, " ") of a text given as its words and the spaces between
\* them: the parts between the spaces, empty ones included.
RECURSIVE Split(_)
Split(s) ==
    IF s = <<>> THEN <<Word("")>>
    ELSE IF Head(s) = Space THEN <<Word("")>> \o Split(Tail(s))
    ELSE IF Len(s) = 1 THEN <<Head(s)>>
    ELSE <<Head(s)>> \o Split(Tail(Tail(s)))

NoTask == [exists |-> FALSE, user_id |-> "", title |-> ""]

NoGate ==
    [kind |-> "", roles |-> <<>>, role |-> "", resource |-> "", action |-> ""]

NoRoute == [name |-> "", chain |-> <<>>, handler |-> "", param |-> FALSE]

NoBody == [valid |-> FALSE, id |-> 0, title |-> "", user_id |-> ""]

\* gin.Context of a request: the header, the route parameter and the body it
\* came with, the keys set by AuthMiddleware, the response written, and
\* whether the chain was aborted.  trail lists the handlers of the chain that
\* ran; task is the row the handler loaded.
NewContext(header, route, id, body) ==
    [pc |-> "chain", header |-> header, route |-> route, id |-> id,
     body |-> body,
     keys |-> FALSE, user_id |-> "", username |-> "", roles |-> <<>>,
     permissions |-> <<>>,
     verr |-> "", trail |-> <<>>, aborted |-> FALSE,
     status |-> 0, error |-> "", out |-> NoTask, list |-> {},
     task |-> NoTask]

IdleRequest == [NewContext(<<>>, NoRoute, EmptyString, NoBody) EXCEPT !.pc = "idle"]

\* c.JSON(status, gin.H{"error": error})
JSON(c, status, error) == [c EXCEPT !.status = status, !.error = error]

\* A context that is marked as answered but not as aborted
AbortAndGoOn(c) == c

\* c.Abort()
Abort(c) == [c EXCEPT !.aborted = TRUE]

Contains(list, x) == \E i \in 1..Len(list) : list[i] = x

-----------------------------------------------------------------------------
(* middleware/auth.go: the gates *)

\* AuthMiddleware without c.Abort() after the answer to a missing header
AuthMiddlewareNoAbort(c, t) ==
    LET parts == Split(c.header)
        v == ValidateAccessToken(parts[2], t)
    IN  IF c.header = <<>>
        THEN JSON(c, 401, "authorization header is required")
        ELSE IF Len(parts) # 2 \/ parts[1] # Word("Bearer")
        THEN Abort(JSON(c, 401, "invalid authorization header format"))
        ELSE IF v.err # "nil"
        THEN Abort([JSON(c, 401, v.err) EXCEPT !.verr = v.err])
        ELSE [c EXCEPT !.verr = "nil", !.keys = TRUE,
                       !.user_id = v.claims.user_id,
                       !.username = v.claims.username,
                       !.roles = v.claims.roles,
                       !.permissions = v.claims.permissions]

AuthMiddleware(c, t) ==
    LET parts == Split(c.header)
        v == ValidateAccessToken(parts[2], t)
    IN  IF c.header = <<>>
        THEN Abort(JSON(c, 401, "authorization header is required"))
        ELSE IF Len(parts) # 2 \/ parts[1] # Word("Bearer")
        THEN Abort(JSON(c, 401, "invalid authorization header format"))
        ELSE IF v.err # "nil"
        THEN Abort([JSON(c, 401, v.err) EXCEPT !.verr = v.err])
        ELSE [c EXCEPT !.verr = "nil", !.keys = TRUE,
                       !.user_id = v.claims.user_id,
                       !.username = v.claims.username,
                       !.roles = v.claims.roles,
                       !.permissions = v.claims.permissions]

\* RequireRole looking at the first required role only
RequireRoleFirstOnly(roles, c) ==
    IF ~c.keys
    THEN Abort(JSON(c, 401, "user roles not found"))
    ELSE IF roles # <<>> /\ Contains(c.roles, roles[1])
    THEN c
    ELSE Abort(JSON(c, 403, "insufficient permissions - role required"))

\* RequireRole checks if the user has any of the required roles
RequireRole(roles, c) ==
    IF ~c.keys
    THEN Abort(JSON(c, 401, "user roles not found"))
    ELSE IF \E i \in 1..Len(roles) : \E j \in 1..Len(c.roles) :
                roles[i] = c.roles[j]
    THEN c
    ELSE Abort(JSON(c, 403, "insufficient permissions - role required"))

\* RequirePermission comparing the resource and not the action
RequirePermissionResourceOnly(resource, action, c) ==
    IF ~c.keys
    THEN Abort(JSON(c, 401, "user permissions not found"))
    ELSE IF \E i \in 1..Len(c.permissions) : \E a \in {"create", "read", "update", "delete"} :
                c.permissions[i] = Permission(resource, a)
    THEN c
    ELSE Abort(JSON(c, 403, "insufficient permissions - permission required"))

\* RequirePermission checks if the user has the required permission
RequirePermission(resource, action, c) ==
    LET requiredPermission == Permission(resource, action)
    IN  IF ~c.keys
        THEN Abort(JSON(c, 401, "user permissions not found"))
        ELSE IF \E i \in 1..Len(c.permissions) :
                    c.permissions[i] = requiredPermission
        THEN c
        ELSE Abort(JSON(c, 403, "insufficient permissions - permission required"))

\* RequireRoleAndPermission with the permission checked before the role
RequireRoleAndPermissionPermFirst(role, resource, action, c) ==
    LET requiredPermission == Permission(resource, action)
    IN  IF ~c.keys
        THEN Abort(JSON(c, 401, "user roles not found"))
        ELSE IF ~Contains(c.permissions, requiredPermission)
        THEN Abort(JSON(c, 403, "insufficient permissions - permission required"))
        ELSE IF ~Contains(c.roles, role)
        THEN Abort(JSON(c, 403, "insufficient permissions - role required"))
        ELSE c

\* RequireRoleAndPermission combines role and permission checks
RequireRoleAndPermission(role, resource, action, c) ==
    LET hasRole == \E i \in 1..Len(c.roles) : c.roles[i] = role
        requiredPermission == Permission(resource, action)
    IN  IF ~c.keys
        THEN Abort(JSON(c, 401, "user roles not found"))
        ELSE IF ~hasRole
        THEN Abort(JSON(c, 403, "insufficient permissions - role required"))
        ELSE IF \E i \in 1..Len(c.permissions) :
                    c.permissions[i] = requiredPermission
        THEN c
        ELSE Abort(JSON(c, 403, "insufficient permissions - permission required"))

\* c.Param(name): the value of the route's URL parameter, "" on a route that
\* has none.
Param(c, name) == IF c.route.param THEN c.id ELSE EmptyString

\* RequireOwnershipOrAdmin with the URL parameter looked at before the roles
RequireOwnershipOrAdminParamFirst(resourceIDParam, c) ==
    LET resourceID == Param(c, resourceIDParam)
        resourceUUID == FromString(resourceID)
    IN  IF ~c.keys
        THEN Abort(JSON(c, 401, "user not authenticated"))
        ELSE IF resourceID.kind = "empty"
        THEN Abort(JSON(c, 400, "resource ID not provided"))
        ELSE IF resourceUUID.err # "nil"
        THEN Abort(JSON(c, 400, "invalid resource ID format"))
        ELSE IF Contains(c.roles, "admin") \/ resourceUUID.uuid = c.user_id
        THEN c
        ELSE Abort(JSON(c, 403, "access denied - resource ownership required"))

\* RequireOwnershipOrAdmin checks if the user owns the resource or is an admin
RequireOwnershipOrAdmin(resourceIDParam, c) ==
    LET resourceID == Param(c, resourceIDParam)
        resourceUUID == FromString(resourceID)
    IN  IF ~c.keys
        THEN Abort(JSON(c, 401, "user not authenticated"))
        ELSE IF \E i \in 1..Len(c.roles) : c.roles[i] = "admin"
        THEN c
        ELSE IF resourceID.kind = "empty"
        THEN Abort(JSON(c, 400, "resource ID not provided"))
        ELSE IF resourceUUID.err # "nil"
        THEN Abort(JSON(c, 400, "invalid resource ID format"))
        ELSE IF resourceUUID.uuid = c.user_id
        THEN c
        ELSE Abort(JSON(c, 403, "access denied - resource ownership required"))

\* The gates as a route lists them
\* RequireTaskAccess: an administrator passes, and so does everyone else
\* ("this will be enforced at the service layer").
RequireTaskAccess(c) ==
    IF c.keys /\ \E i \in 1..Len(c.roles) : c.roles[i] = "admin"
    THEN c
    ELSE c

\* RequireUserManagementAccess: only administrators pass.
RequireUserManagementAccess(c) ==
    IF ~c.keys
    THEN Abort(JSON(c, 401, "user roles not found"))
    ELSE IF \E i \in 1..Len(c.roles) : c.roles[i] = "admin"
    THEN c
    ELSE Abort(JSON(c, 403,
             "insufficient permissions - admin role required for user management"))

\* RequireTaskManagementAccess: a context with roles passes, whatever they
\* are.
RequireTaskManagementAccess(c) ==
    IF ~c.keys
    THEN Abort(JSON(c, 401, "user roles not found"))
    ELSE c

Gate(kind, roles, role, resource, action) ==
    [kind |-> kind, roles |-> roles, role |-> role, resource |-> resource,
     action |-> action]

Auth == Gate("AuthMiddleware", <<>>, "", "", "")

Role(roles) == Gate("RequireRole", roles, "", "", "")

Perm(resource, action) == Gate("RequirePermission", <<>>, "", resource, action)

RolePerm(role, resource, action) ==
    Gate("RequireRoleAndPermission", <<>>, role, resource, action)

\* The resource field of this gate holds the name of the URL parameter.
Own(resourceIDParam) ==
    Gate("RequireOwnershipOrAdmin", <<>>, "", resourceIDParam, "")

\* The handlers of the chain deciding on the roles the caller holds in
\* user_roles at the time of the request, not on those of the token
ApplyWithStoredRoles(g, c, t) ==
    LET held == IF c.keys /\ c.user_id \in DOMAIN userRoles
                THEN userRoles[c.user_id] ELSE {}
        stored == (IF "admin" \in held THEN <<"admin">> ELSE <<>>)
                  \o (IF "user" \in held THEN <<"user">> ELSE <<>>)
        d == [c EXCEPT !.trail = Append(@, g.kind),
                       !.roles = IF c.keys THEN stored ELSE @]
    IN  CASE g.kind = "AuthMiddleware" -> AuthMiddleware(d, t)
          [] g.kind = "RequireRole" -> RequireRole(g.roles, d)
          [] g.kind = "RequirePermission" ->
                RequirePermission(g.resource, g.action, d)
          [] g.kind = "RequireRoleAndPermission" ->
                RequireRoleAndPermission(g.role, g.resource, g.action, d)
          [] g.kind = "RequireOwnershipOrAdmin" ->
                RequireOwnershipOrAdmin(g.resource, d)
          [] g.kind = "RequireTaskAccess" -> RequireTaskAccess(d)
          [] g.kind = "RequireUserManagementAccess" ->
                RequireUserManagementAccess(d)
          [] g.kind = "RequireTaskManagementAccess" ->
                RequireTaskManagementAccess(d)

\* One handler of the chain runs
Apply(g, c, t) ==
    LET d == [c EXCEPT !.trail = Append(@, g.kind)]
    IN  CASE g.kind = "AuthMiddleware" -> AuthMiddleware(d, t)
          [] g.kind = "RequireRole" -> RequireRole(g.roles, d)
          [] g.kind = "RequirePermission" ->
                RequirePermission(g.resource, g.action, d)
          [] g.kind = "RequireRoleAndPermission" ->
                RequireRoleAndPermission(g.role, g.resource, g.action, d)
          [] g.kind = "RequireOwnershipOrAdmin" ->
                RequireOwnershipOrAdmin(g.resource, d)
          [] g.kind = "RequireTaskAccess" -> RequireTaskAccess(d)
          [] g.kind = "RequireUserManagementAccess" ->
                RequireUserManagementAccess(d)
          [] g.kind = "RequireTaskManagementAccess" ->
                RequireTaskManagementAccess(d)

\* gin runs the handlers of the chain in order and skips the rest once one of
\* them has aborted.
RECURSIVE RunChain(_, _, _)
RunChain(chain, c, t) ==
    IF chain = <<>> \/ c.aborted THEN c
    ELSE RunChain(Tail(chain), Apply(Head(chain), c, t), t)

-----------------------------------------------------------------------------
(* services/task.go and handlers/task.go *)

TaskIds == {1, 2}

\* Two tasks, created by alice and by bob
SeedTasks ==
    [n \in TaskIds |->
        [exists |-> TRUE, user_id |-> IF n = 1 THEN "alice" ELSE "bob",
         title |-> "old"]]

\* TaskServiceImpl.GetTaskByID: db.First(&task, "id = ?", taskID)
LoadTask(taskID, dbOK) ==
    IF dbOK /\ taskID \in DOMAIN tasks /\ tasks[taskID].exists
    THEN [task |-> tasks[taskID], err |-> "nil"]
    ELSE [task |-> NoTask, err |-> "record not found"]

\* The handlers taking the caller for an administrator by its user id
IsAdminByUserID(c) == c.keys /\ c.user_id = "admin"

\* "Check if user is admin"
IsAdmin(c) == c.keys /\ \E i \in 1..Len(c.roles) : c.roles[i] = "admin"

\* The handlers without the ownership check
MayAccessEveryone(c, task) == TRUE

\* "Enforce ownership: only task owner or admin can access"
MayAccess(c, task) == ~(~IsAdmin(c) /\ task.user_id # c.user_id)

\* The handlers with the ownership compared before the task is known to exist
LoadOwnedTaskOwnerFirst(c, dbOK, denied) ==
    LET taskID == FromString(c.id)
        got == LoadTask(taskID.uuid, dbOK)
    IN  IF taskID.err # "nil" THEN JSON(c, 400, "invalid task ID")
        ELSE IF ~c.keys THEN JSON(c, 401, "user not authenticated")
        ELSE IF ~MayAccess(c, got.task)
        THEN JSON([c EXCEPT !.task = got.task], 403, denied)
        ELSE IF got.err # "nil" THEN JSON(c, 404, "task not found")
        ELSE [c EXCEPT !.task = got.task]

\* What GetTaskByID, UpdateTask and DeleteTask do alike: the id is parsed, the
\* caller is read from the context, the task is loaded and its ownership is
\* checked.  denied is the handler's own 403 message.
LoadOwnedTask(c, dbOK, denied) ==
    LET taskID == FromString(c.id)
        got == LoadTask(taskID.uuid, dbOK)
    IN  IF taskID.err # "nil" THEN JSON(c, 400, "invalid task ID")
        ELSE IF ~c.keys THEN JSON(c, 401, "user not authenticated")
        ELSE IF got.err # "nil" THEN JSON(c, 404, "task not found")
        ELSE IF ~MayAccess(c, got.task)
        THEN JSON([c EXCEPT !.task = got.task], 403, denied)
        ELSE [c EXCEPT !.task = got.task]

GetTaskByID(c, dbOK) ==
    LET d == LoadOwnedTask(c, dbOK,
                 "access denied - you can only access your own tasks")
    IN  IF d.status # 0 THEN d
        ELSE [JSON(d, 200, "") EXCEPT !.out = d.task]

\* UpdateTask writing the user_id of the body for every caller
UpdateTaskKeepsBodyOwner(c, dbOK) ==
    LET d == LoadOwnedTask(c, dbOK,
                 "access denied - you can only update your own tasks")
    IN  IF d.status # 0 THEN d
        ELSE IF ~d.body.valid THEN JSON(d, 400, "EOF")
        ELSE [d EXCEPT !.pc = "write"]

\* UpdateTask up to its write: the body is bound after the ownership check.
UpdateTask(c, dbOK) ==
    LET d == LoadOwnedTask(c, dbOK,
                 "access denied - you can only update your own tasks")
    IN  IF d.status # 0 THEN d
        ELSE IF ~d.body.valid THEN JSON(d, 400, "EOF")
        ELSE [d EXCEPT !.pc = "write",
                       !.body.user_id = IF ~IsAdmin(d) THEN d.user_id
                                        ELSE d.body.user_id]

\* DeleteTask up to its write
DeleteTask(c, dbOK) ==
    LET d == LoadOwnedTask(c, dbOK,
                 "access denied - you can only delete your own tasks")
    IN  IF d.status # 0 THEN d ELSE [d EXCEPT !.pc = "write"]

\* CreateTask without the owner being set from the token
CreateTaskKeepsBodyOwner(c, dbOK) ==
    IF ~c.body.valid THEN JSON(c, 400, "EOF")
    ELSE IF ~c.keys THEN JSON(c, 401, "user not authenticated")
    ELSE [c EXCEPT !.pc = "write",
                   !.task = [exists |-> TRUE, user_id |-> c.body.user_id,
                             title |-> c.body.title]]

\* CreateTask up to its write: the body is bound into task, and task.UserID
\* is set to the user_id of the token.
CreateTask(c, dbOK) ==
    IF ~c.body.valid THEN JSON(c, 400, "EOF")
    ELSE IF ~c.keys THEN JSON(c, 401, "user not authenticated")
    ELSE [c EXCEPT !.pc = "write",
                   !.task = [exists |-> TRUE, user_id |-> c.user_id,
                             title |-> c.body.title]]

\* The ids of the stored tasks, and of those with this owner
AllTasks == {n \in DOMAIN tasks : tasks[n].exists}

TasksOf(userID) == {n \in AllTasks : tasks[n].user_id = userID}

\* GetTasks: lists every task
GetTasks(c, dbOK) ==
    IF dbOK THEN [JSON(c, 200, "") EXCEPT !.list = AllTasks]
    ELSE JSON(c, 500, "store error")

\* The inline handler of GET /admin/dashboard
Dashboard(c) == JSON(c, 200, "")

\* GetTasksByUser answering every caller that names a user
GetTasksByUserForEveryone(c, dbOK) ==
    LET userUUID == FromString(c.id)
    IN  IF userUUID.err # "nil" THEN JSON(c, 400, "invalid user ID")
        ELSE IF ~c.keys THEN JSON(c, 401, "user not authenticated")
        ELSE IF ~dbOK THEN JSON(c, 500, "store error")
        ELSE [JSON(c, 200, "") EXCEPT !.list = TasksOf(userUUID.uuid)]

\* GetTasksByUser: the tasks of the user the parameter names, for that user
\* and for an administrator
GetTasksByUser(c, dbOK) ==
    LET userUUID == FromString(c.id)
    IN  IF userUUID.err # "nil" THEN JSON(c, 400, "invalid user ID")
        ELSE IF ~c.keys THEN JSON(c, 401, "user not authenticated")
        ELSE IF ~IsAdmin(c) /\ c.user_id # userUUID.uuid
        THEN JSON(c, 403, "access denied - you can only access your own tasks")
        ELSE IF ~dbOK THEN JSON(c, 500, "store error")
        ELSE [JSON(c, 200, "") EXCEPT !.list = TasksOf(userUUID.uuid)]

-----------------------------------------------------------------------------
(* handlers and services of the user routes *)

\* UserServiceImpl.GetUserProfile: db.Preload("Roles").Where("id = ?", userID).First(&user)
FindUser(userID, dbOK) ==
    IF ~dbOK THEN "store error"
    ELSE IF userID \notin users THEN "record not found"
    ELSE "nil"

\* What the two profile handlers answer for the error of GetUserProfile
Profile(c, err) ==
    IF err = "record not found" THEN JSON(c, 404, "user not found")
    ELSE IF err # "nil" THEN JSON(c, 500, "failed to get user profile")
    ELSE JSON(c, 200, "")

\* UserHandler.GetUserProfile: the profile of the caller
GetUserProfile(c, dbOK) ==
    IF ~c.keys THEN JSON(c, 401, "user not authenticated")
    ELSE Profile(c, FindUser(c.user_id, dbOK))

\* UserHandler.GetUserProfileByUserId: the profile of the user the parameter
\* names
GetUserProfileByUserId(c, dbOK) ==
    LET userUUID == FromString(c.id)
    IN  IF userUUID.err # "nil" THEN JSON(c, 400, "invalid user ID format")
        ELSE Profile(c, FindUser(userUUID.uuid, dbOK))

\* UserHandler.GetUsers
GetUsers(c, dbOK) ==
    IF dbOK THEN JSON(c, 200, "") ELSE JSON(c, 500, "failed to get users")

\* UserHandler.DeleteUser up to its write
DeleteUser(c) ==
    IF FromString(c.id).err # "nil" THEN JSON(c, 400, "invalid user ID format")
    ELSE [c EXCEPT !.pc = "write"]

Handle(handler, c, dbOK) ==
    LET d == [c EXCEPT !.trail = Append(@, handler)]
    IN  CASE handler = "GetTaskByID" -> GetTaskByID(d, dbOK)
          [] handler = "GetTasksByUser" -> GetTasksByUser(d, dbOK)
          [] handler = "GetUserProfile" -> GetUserProfile(d, dbOK)
          [] handler = "GetUserProfileByUserId" -> GetUserProfileByUserId(d, dbOK)
          [] handler = "GetUsers" -> GetUsers(d, dbOK)
          [] handler = "DeleteUser" -> DeleteUser(d)
          [] handler = "UpdateTask" -> UpdateTask(d, dbOK)
          [] handler = "DeleteTask" -> DeleteTask(d, dbOK)
          [] handler = "CreateTask" -> CreateTask(d, dbOK)
          [] handler = "GetTasks" -> GetTasks(d, dbOK)
          [] handler = "Dashboard" -> Dashboard(d)

\* TaskServiceImpl.UpdateTask: Updates(task) writes the non-zero fields of
\* the bound body to the row with this id, if it is still there.
UpdatedRow(row, body) ==
    [row EXCEPT !.title = IF body.title # "" THEN body.title ELSE @,
                !.user_id = IF body.user_id # "" THEN body.user_id ELSE @]

\* A request arrives and runs through its chain and into its handler, up to
\* the handler's write to the store.
Serve(header, route, id, body, dbOK) ==
    /\ req.pc = "idle"
    /\ LET c == RunChain(route.chain, NewContext(header, route, id, body), now)
           d == IF c.aborted THEN c ELSE Handle(route.handler, c, dbOK)
       IN  req' = [d EXCEPT !.pc = IF d.pc = "write" THEN "write" ELSE "done"]
    /\ UNCHANGED <<now, users, userRoles, tokens, nextUUID, rw, login,
                   redeemed, tasks>>

\* The handler's write: UpdateTask or DeleteTask of the task service.
Write(dbOK) ==
    /\ req.pc = "write"
    /\ req.route.handler \in {"UpdateTask", "DeleteTask"}
    /\ LET taskID == FromString(req.id).uuid
           there == tasks[taskID].exists
       IN  IF ~dbOK \/ ~there
           THEN /\ req' = [JSON(req, 500, IF dbOK THEN "task not found"
                                          ELSE "store error")
                             EXCEPT !.pc = "done"]
                /\ UNCHANGED tasks
           ELSE IF req.route.handler = "UpdateTask"
           THEN /\ tasks' = [tasks EXCEPT ![taskID] = UpdatedRow(@, req.body)]
                /\ req' = [JSON(req, 200, "") EXCEPT !.pc = "done"]
           ELSE /\ tasks' = [tasks EXCEPT ![taskID] = NoTask]
                /\ req' = [JSON(req, 204, "") EXCEPT !.pc = "done"]
    /\ UNCHANGED <<now, users, userRoles, tokens, nextUUID, rw, login,
                   redeemed>>

\* The write of a second request that is in flight at the same time, sent by
\* the administrator, whom the ownership check always lets through:
\* TaskServiceImpl.UpdateTask with a body that names a new owner, or
\* TaskServiceImpl.DeleteTask.  Its answer is not kept.
OtherWrite(handler, taskID, owner) ==
    /\ handler \in {"UpdateTask", "DeleteTask"}
    /\ taskID \in DOMAIN tasks
    /\ tasks[taskID].exists
    /\ tasks' = [tasks EXCEPT ![taskID] =
                    IF handler = "UpdateTask"
                    THEN UpdatedRow(@, [valid |-> TRUE, id |-> 0, title |-> "",
                                        user_id |-> owner])
                    ELSE NoTask]
    /\ UNCHANGED <<now, users, userRoles, tokens, nextUUID, rw, login,
                   redeemed, req>>

\* CreateTask's write: the task gets the id of the body, or a new one when
\* the body has none, and db.Create inserts it; an id that is already in the
\* table, deleted or not, fails the insert.
Insert(newID, dbOK) ==
    /\ req.pc = "write"
    /\ req.route.handler = "CreateTask"
    /\ newID \in 1..MaxTasks
    /\ newID \notin DOMAIN tasks
    /\ LET taskID == IF req.body.id = 0 THEN newID ELSE req.body.id
       IN  IF ~dbOK \/ taskID \in DOMAIN tasks
           THEN /\ req' = [JSON(req, 500, "store error") EXCEPT !.pc = "done"]
                /\ UNCHANGED tasks
           ELSE /\ tasks' = [n \in DOMAIN tasks \cup {taskID} |->
                                IF n = taskID THEN req.task ELSE tasks[n]]
                /\ req' = [JSON(req, 201, "") EXCEPT !.pc = "done",
                                                     !.out = req.task]
    /\ UNCHANGED <<now, users, userRoles, tokens, nextUUID, rw, login,
                   redeemed>>

\* DeleteUser's write, UserServiceImpl.DeleteUser: the row is deleted; when
\* no row was affected, because there is none or because the store failed,
\* the service returns gorm.ErrRecordNotFound.
DeleteUserRow(dbOK) ==
    /\ req.pc = "write"
    /\ req.route.handler = "DeleteUser"
    /\ LET userId == FromString(req.id).uuid
       IN  IF ~dbOK \/ userId \notin users
           THEN /\ req' = [JSON(req, 404, "user not found") EXCEPT !.pc = "done"]
                /\ UNCHANGED users
           ELSE /\ users' = users \ {userId}
                /\ req' = [JSON(req, 204, "") EXCEPT !.pc = "done"]
    /\ UNCHANGED <<now, userRoles, tokens, nextUUID, rw, login, redeemed,
                   tasks>>

\* The response is on the wire; the next request can come.
Finish ==
    /\ req.pc = "done"
    /\ req' = IdleRequest
    /\ UNCHANGED <<now, users, userRoles, tokens, nextUUID, rw, login,
                   redeemed, tasks>>

-----------------------------------------------------------------------------
(* The served routes, and the requests sent to them *)

Route(name, chain, handler, param) ==
    [name |-> name, chain |-> chain, handler |-> handler, param |-> param]

\* main: the task routes and the admin route
RouteTable ==
    { Route("PUT /tasks/:id", <<Auth, Perm("tasks", "update")>>, "UpdateTask", TRUE),
      Route("DELETE /tasks/:id", <<Auth, Perm("tasks", "delete")>>, "DeleteTask", TRUE),
      Route("GET /tasks/:id", <<Auth, Perm("tasks", "read")>>, "GetTaskByID", TRUE),
      Route("GET /tasks", <<Auth, RolePerm("admin", "tasks", "read")>>, "GetTasks", FALSE),
      Route("GET /admin/dashboard", <<Auth, Role(<<"admin">>)>>, "Dashboard", FALSE) }

\* Routes as the tests mount them: one gate behind AuthMiddleware, in front
\* of a handler that answers 200.
GateArguments ==
    { Role(<<>>), Role(<<"user">>), Role(<<"admin", "user">>),
      Role(<<"auditor", "admin">>),
      Perm("tasks", "read"), Perm("users", "read"), Perm("users", "delete"),
      RolePerm("user", "tasks", "read"), RolePerm("admin", "users", "delete"),
      RolePerm("user", "users", "read") }

TestRoutes ==
    { Route("GET /probe", <<Auth, g>>, "Dashboard", FALSE) : g \in GateArguments }

\* RequireOwnershipOrAdmin on a route with the parameter it names, and on a
\* route without it.
OwnerRoutes ==
    { Route("GET /owned/:user_id", <<Auth, Own("user_id")>>, "Dashboard", TRUE),
      Route("GET /owned", <<Auth, Own("user_id")>>, "Dashboard", FALSE) }

Routes == RouteTable \cup TestRoutes \cup OwnerRoutes

\* The user routes behind AuthMiddleware alone
UserRoutesWithoutGates ==
    { Route("DELETE /users/:user_id", <<Auth>>, "DeleteUser", TRUE),
      Route("GET /users", <<Auth>>, "GetUsers", FALSE),
      Route("GET /users/:user_id/tasks", <<Auth>>, "GetTasksByUser", TRUE),
      Route("GET /users/profile", <<Auth>>, "GetUserProfile", FALSE),
      Route("GET /users/profile/:user_id", <<Auth>>,
            "GetUserProfileByUserId", TRUE) }

\* main: the user routes
UserRoutes ==
    { Route("DELETE /users/:user_id",
            <<Auth, RolePerm("admin", "users", "delete")>>, "DeleteUser", TRUE),
      Route("GET /users", <<Auth, RolePerm("admin", "users", "read")>>,
            "GetUsers", FALSE),
      Route("GET /users/:user_id/tasks", <<Auth, Perm("tasks", "read")>>,
            "GetTasksByUser", TRUE),
      Route("GET /users/profile", <<Auth>>, "GetUserProfile", FALSE),
      Route("GET /users/profile/:user_id",
            <<Auth, RolePerm("admin", "users", "read")>>,
            "GetUserProfileByUserId", TRUE) }

\* Routes with more than one gate behind AuthMiddleware, as a group's Use
\* followed by a gate on the route gives them: in front of a handler that
\* writes, and in front of handlers that only answer.
ChainRoutes ==
    { Route("DELETE /admin/tasks/:id",
            <<Auth, Role(<<"admin">>), Perm("tasks", "delete")>>,
            "DeleteTask", TRUE),
      Route("GET /tasks/:id/guarded",
            <<Auth, RolePerm("user", "tasks", "read"), Perm("tasks", "update")>>,
            "GetTaskByID", TRUE),
      Route("GET /users/:user_id/guarded",
            <<Auth, Perm("tasks", "read"), Own("user_id"), Role(<<"user">>)>>,
            "Dashboard", TRUE) }

\* main: POST /tasks
CreateRoute ==
    Route("POST /tasks", <<Auth, Perm("tasks", "create")>>, "CreateTask", FALSE)

\* The routes that read and write single tasks
TaskRoutes ==
    {r \in RouteTable : r.handler \in {"GetTaskByID", "UpdateTask", "DeleteTask"}}
    \cup {CreateRoute}

RoleLists == {<<>>, <<"user">>, <<"admin">>, <<"user", "admin">>}

PermissionLists ==
    { <<>>, <<"tasks:read">>,
      <<"tasks:create", "tasks:read", "tasks:update", "tasks:delete">>,
      <<"tasks:create", "tasks:read", "tasks:update", "tasks:delete",
        "users:read", "users:update", "users:delete">> }

ClaimsOf(u, roles, permissions, iat) ==
    [user_id |-> u, username |-> Username(u), roles |-> roles,
     permissions |-> permissions, iat |-> iat, exp |-> iat + AccessTTL]

\* Access-token strings a client can present: tokens signed by this server
\* with any claims, tokens issued earlier, tokens signed with another key, and
\* text that is no token.
TokenStrings ==
    { Jwt(ClaimsOf(u, r, p, now), getJWTSecret) :
          u \in UserIds, r \in RoleLists, p \in PermissionLists }
    \cup { Jwt(ClaimsOf("alice", <<"admin">>, <<"tasks:read">>, i), k) :
              i \in {now - 2 * AccessTTL, now - AccessTTL, now},
              k \in {getJWTSecret, "attacker-key"} }
    \cup {Garbage}

Headers ==
    { <<>>,
      <<Word("Bearer")>>,
      <<Word("Bearer"), Space>>,
      <<Word("Bearer"), Space, Space, Garbage>> }
    \cup { <<Word(w), Space, tok>> :
              w \in {"Bearer", "bearer", "Basic"},
              tok \in {Jwt(ClaimsOf("admin", <<"admin">>, <<"tasks:read">>, now),
                           getJWTSecret)} }
    \cup { <<Word("Bearer"), Space, tok>> : tok \in TokenStrings }

\* The callers of the task routes: two users and an administrator with the
\* permissions of the default policy, and a client without a token.
CallerHeaders ==
    { <<>> }
    \cup { <<Word("Bearer"), Space,
             Jwt(ClaimsOf(u, <<"user">>,
                          <<"tasks:create", "tasks:read", "tasks:update",
                            "tasks:delete">>, now), getJWTSecret)>> :
              u \in {"alice", "bob"} }
    \cup { <<Word("Bearer"), Space,
             Jwt(ClaimsOf("admin", <<"admin">>,
                          <<"tasks:create", "tasks:read", "tasks:update",
                            "tasks:delete", "users:read", "users:update",
                            "users:delete">>, now), getJWTSecret)>> }

RouteParams(route) ==
    IF ~route.param THEN {EmptyString}
    ELSE IF route \in UserRoutes \/ \E i \in 1..Len(route.chain) :
                route.chain[i].kind = "RequireOwnershipOrAdmin"
    THEN {UUIDString(u) : u \in UserIds} \cup {OtherText}
    ELSE {UUIDString(n) : n \in TaskIds \cup {3}} \cup {OtherText}

Bodies(route) ==
    IF route.handler = "UpdateTask"
    THEN { NoBody, [valid |-> TRUE, id |-> 0, title |-> "new", user_id |-> ""],
           [valid |-> TRUE, id |-> 0, title |-> "new", user_id |-> "bob"] }
    ELSE IF route.handler = "CreateTask"
    THEN {NoBody}
         \cup { [valid |-> TRUE, id |-> n, title |-> "new", user_id |-> u] :
                    n \in {0, 1}, u \in {"", "bob"} }
    ELSE {NoBody}

-----------------------------------------------------------------------------
(* services/register.go and handlers/register.go: POST /auth/register *)

\* RegisterRequest: username, email and password are required.  A user's
\* email is written as the name of the user who has it.
RegisterRequest(username, email) ==
    [valid |-> username # "" /\ email # "", username |-> username,
     email |-> email]

RegisterRoute == Route("POST /auth/register", <<>>, "Registration", FALSE)

\* RegisterUser that creates the user without looking up a role
RegisterUserWithoutRole(username, roleOK, createOK) ==
    IF ~createOK \/ username \in users
    THEN [err |-> "store error", users |-> users, userRoles |-> userRoles]
    ELSE [err |-> "nil", users |-> users \cup {username},
          userRoles |-> [u \in DOMAIN userRoles \cup {username} |->
                            IF u = username THEN {} ELSE userRoles[u]]]

\* RegisterServiceImpl.RegisterUser: the role named user is looked up
\* (roleOK), user.Roles is set to that one role, and db.Create inserts the
\* user and its user_roles row in one transaction (createOK); a username
\* that is already stored fails the insert.
RegisterUser(username, roleOK, createOK) ==
    IF ~roleOK
    THEN [err |-> "record not found", users |-> users, userRoles |-> userRoles]
    ELSE IF ~createOK \/ username \in users
    THEN [err |-> "store error", users |-> users, userRoles |-> userRoles]
    ELSE [err |-> "nil", users |-> users \cup {username},
          userRoles |-> [u \in DOMAIN userRoles \cup {username} |->
                            IF u = username THEN {"user"} ELSE userRoles[u]]]

\* RegisterHandler.Registration: 400 for a body that does not bind, 409 when
\* the lookup by username or by email finds a row (a lookup that fails finds
\* none), then RegisterUser.
Registration(body, nameOK, emailOK, roleOK, createOK) ==
    /\ req.pc = "idle"
    /\ LET c == [NewContext(<<>>, RegisterRoute, EmptyString, body)
                   EXCEPT !.trail = <<"Registration">>, !.pc = "done"]
           r == RegisterUser(body.username, roleOK, createOK)
       IN  IF ~body.valid
           THEN /\ req' = JSON(c, 400, "invalid request body")
                /\ UNCHANGED <<users, userRoles>>
           ELSE IF nameOK /\ body.username \in users
           THEN /\ req' = JSON(c, 409, "username already exists")
                /\ UNCHANGED <<users, userRoles>>
           ELSE IF emailOK /\ body.email \in users
           THEN /\ req' = JSON(c, 409, "email already exists")
                /\ UNCHANGED <<users, userRoles>>
           ELSE IF r.err # "nil"
           THEN /\ req' = JSON(c, 500, "failed to create user")
                /\ UNCHANGED <<users, userRoles>>
           ELSE /\ req' = JSON(c, 201, "")
                /\ users' = r.users
                /\ userRoles' = r.userRoles
    /\ UNCHANGED <<now, tokens, nextUUID, rw, login, redeemed, tasks>>

RegisterRequests ==
    { RegisterRequest(u, e) : u \in {"", "alice", "carol"},
                              e \in {"", "alice", "carol"} }

-----------------------------------------------------------------------------
(* POST /auth/register, the rows of the users table kept whole *)

\* A row of the users table.  Where usernames and emails matter the table is
\* kept as the set of its rows; a seeded user has its name as id, username
\* and email.
UserRow(id, username, email) ==
    [id |-> id, username |-> username, email |-> email]

SeedUserRows == {UserRow(u, u, u) : u \in UserIds}

\* uuid.NewV4() for the n-th user created
NewUserID(n) == "user-" \o ToString(n)

\* db.Where(column + " = ?", value).First(&existingUser): err == nil, which a
\* failed read (readOK false) never gives
ExistingUser(column, value, readOK) ==
    readOK /\ \E r \in users : r[column] = value

\* The unique indexes of the users table, on username and on email
UniqueViolation(user) ==
    \E r \in users : r.username = user.username \/ r.email = user.email

\* db.Create(&user) on a table without the unique indexes
CreateWithoutUnique(user, createOK) == ~createOK

\* db.Create(&user): the insert fails when the store fails and when the row
\* would break a unique index.  TRUE when it fails.
Create(user, createOK) == ~createOK \/ UniqueViolation(user)

\* RegisterServiceImpl.RegisterUser on whole rows: a new id, the role user
\* looked up, the user and its user_roles row inserted.
RegisterUserRow(username, email, roleOK, createOK) ==
    LET user == UserRow(NewUserID(nextUUID + 1), username, email)
    IN  IF ~roleOK
        THEN [err |-> "record not found", users |-> users,
              userRoles |-> userRoles]
        ELSE IF Create(user, createOK)
        THEN [err |-> "store error", users |-> users, userRoles |-> userRoles]
        ELSE [err |-> "nil", users |-> users \cup {user},
              userRoles |-> [u \in DOMAIN userRoles \cup {user.id} |->
                                IF u = user.id THEN {"user"} ELSE userRoles[u]]]

\* RegisterHandler.Registration up to RegisterUser: the body is bound and the
\* two lookups are made.
RegistrationLookups(body, nameOK, emailOK) ==
    /\ req.pc = "idle"
    /\ LET c == [NewContext(<<>>, RegisterRoute, EmptyString, body)
                   EXCEPT !.trail = <<"Registration">>, !.pc = "done"]
       IN  req' = IF ~body.valid
                    THEN JSON(c, 400, "invalid request body")
                  ELSE IF ExistingUser("username", body.username, nameOK)
                    THEN JSON(c, 409, "username already exists")
                  ELSE IF ExistingUser("email", body.email, emailOK)
                    THEN JSON(c, 409, "email already exists")
                  ELSE [c EXCEPT !.pc = "write"]
    /\ UNCHANGED <<now, users, userRoles, tokens, nextUUID, rw, login,
                   redeemed, tasks>>

\* RegisterHandler.Registration from RegisterUser on
RegistrationCreate(roleOK, createOK) ==
    /\ req.pc = "write"
    /\ req.route = RegisterRoute
    /\ nextUUID < MaxTokens
    /\ LET r == RegisterUserRow(req.body.username, req.body.email, roleOK,
                                createOK)
       IN  /\ req' = [(IF r.err # "nil"
                        THEN JSON(req, 500, "failed to create user")
                        ELSE JSON(req, 201, "")) EXCEPT !.pc = "done"]
           /\ users' = r.users
           /\ userRoles' = r.userRoles
    /\ nextUUID' = nextUUID + 1
    /\ UNCHANGED <<now, tokens, rw, login, redeemed, tasks>>

\* A second registration in flight at the same time, from its lookups to its
\* insert; its answer is not kept.
OtherRegistration(body, roleOK, createOK) ==
    /\ body.valid
    /\ ~ExistingUser("username", body.username, TRUE)
    /\ ~ExistingUser("email", body.email, TRUE)
    /\ nextUUID < MaxTokens
    /\ LET r == RegisterUserRow(body.username, body.email, roleOK, createOK)
       IN  users' = r.users /\ userRoles' = r.userRoles
    /\ nextUUID' = nextUUID + 1
    /\ UNCHANGED <<now, tokens, rw, login, redeemed, tasks, req>>

NewRegisterRequests ==
    {NoBody}
    \cup { RegisterRequest(u, e) : u \in {"alice", "carol", "dave"},
                                  e \in {"alice", "carol", "dave"} }

-----------------------------------------------------------------------------
(* The policy store changes under the running server *)

\* A row is inserted into user_roles.
AssignRole(u, r) ==
    /\ r \notin userRoles[u]
    /\ userRoles' = [userRoles EXCEPT ![u] = @ \cup {r}]
    /\ UNCHANGED <<now, users, tokens, nextUUID, rw, login, redeemed, tasks, req>>

\* A row is deleted from user_roles.
RevokeRole(u, r) ==
    /\ r \in userRoles[u]
    /\ userRoles' = [userRoles EXCEPT ![u] = @ \ {r}]
    /\ UNCHANGED <<now, users, tokens, nextUUID, rw, login, redeemed, tasks, req>>

-----------------------------------------------------------------------------
(* Specifications *)

Init ==
    /\ now = 0
    /\ users = UserIds
    /\ userRoles = SeedUserRoles
    /\ tokens = {}
    /\ nextUUID = 0
    /\ rw = [w \in Workers |-> IdleWorker]
    /\ login = NoLogin
    /\ redeemed = [ok |-> {}, deleted |-> {}]
    /\ tasks = SeedTasks
    /\ req = IdleRequest

\* Token rotation under concurrency: logins of one user and two concurrent
\* refresh requests, every store call succeeding or failing, all within one
\* reading of the clock.
Next ==
    \/ \E c \in BOOLEAN : Login("alice", Password("alice"), TRUE, c)
    \/ \E w \in Workers, v \in RefreshStrings, ok \in BOOLEAN :
          RefreshLookup(w, v, ok)
    \/ \E w \in Workers, ok \in BOOLEAN : RefreshGetUser(w, ok)
    \/ \E w \in Workers, ok \in BOOLEAN : RefreshGenerate(w, ok)
    \/ \E w \in Workers, ok \in BOOLEAN : RefreshDelete(w, ok)

Spec == Init /\ [][Next]_vars

\* Issuance over time: every login input, one refresh request at a time, the
\* clock, and role changes in the store.
NextIssue ==
    \/ \E u \in Usernames, good, r, c \in BOOLEAN :
          Login(u, IF good THEN Password(u) ELSE "wrong", r, c)
    \/ \E v \in RefreshStrings, ok \in BOOLEAN : RefreshLookup("w1", v, ok)
    \/ \E ok \in BOOLEAN : RefreshGetUser("w1", ok)
    \/ \E ok \in BOOLEAN : RefreshGenerate("w1", ok)
    \/ \E ok \in BOOLEAN : RefreshDelete("w1", ok)
    \/ AssignRole("alice", "admin")
    \/ RevokeRole("alice", "admin")
    \/ Tick

SpecIssue == Init /\ [][NextIssue]_vars

\* Rotation over time: logins of one user and one refresh request at a time,
\* every store call succeeding or failing, while the clock runs.
NextRotate ==
    \/ \E c \in BOOLEAN : Login("alice", Password("alice"), TRUE, c)
    \/ \E v \in RefreshStrings, ok \in BOOLEAN : RefreshLookup("w1", v, ok)
    \/ \E ok \in BOOLEAN : RefreshGetUser("w1", ok)
    \/ \E ok \in BOOLEAN : RefreshGenerate("w1", ok)
    \/ \E ok \in BOOLEAN : RefreshDelete("w1", ok)
    \/ Tick

SpecRotate == Init /\ [][NextRotate]_vars

\* End to end: logins with right and wrong credentials, and requests that
\* present the access token of the latest login on the task routes and the
\* admin route, while the clock runs.
EndToEndRoutes == {r \in RouteTable : r.handler \in {"GetTaskByID", "GetTasks", "Dashboard"}}

ServeIssued(route) ==
    /\ login.status = 200
    /\ \E id \in RouteParams(route) :
          Serve(<<Word("Bearer"), Space, login.access>>, route, id, NoBody, TRUE)

NextEndToEnd ==
    \/ \E u \in {"alice", "mallory"}, good, r, c \in BOOLEAN :
          Login(u, IF good THEN Password(u) ELSE "wrong", r, c)
    \/ \E r \in EndToEndRoutes : ServeIssued(r)
    \/ Finish
    \/ Tick

SpecEndToEnd == Init /\ [][NextEndToEnd]_vars

\* The gates and the task handlers: one request at a time, with the server up
\* long enough for tokens to have expired.
InitGate ==
    /\ now = MaxTime
    /\ users = UserIds
    /\ userRoles = SeedUserRoles
    /\ tokens = {}
    /\ nextUUID = 0
    /\ rw = [w \in Workers |-> IdleWorker]
    /\ login = NoLogin
    /\ redeemed = [ok |-> {}, deleted |-> {}]
    /\ tasks = SeedTasks
    /\ req = IdleRequest

NextGate ==
    \/ \E h \in Headers, r \in Routes, ok \in BOOLEAN :
          \E id \in RouteParams(r), b \in Bodies(r) : Serve(h, r, id, b, ok)
    \/ \E ok \in BOOLEAN : Write(ok)
    \/ Finish

SpecGate == InitGate /\ [][NextGate]_vars

\* Chains of gates: one request at a time on the routes with several gates.
NextChain ==
    \/ \E h \in Headers, r \in ChainRoutes, ok \in BOOLEAN :
          \E id \in RouteParams(r), b \in Bodies(r) : Serve(h, r, id, b, ok)
    \/ \E ok \in BOOLEAN : Write(ok)
    \/ Finish

SpecChain == InitGate /\ [][NextChain]_vars

\* The store changes under the running server: users register, roles are
\* assigned and revoked, logins add refresh-token rows, and the administrator
\* deletes a task.
AdminHeader ==
    <<Word("Bearer"), Space,
      Jwt(ClaimsOf("admin", <<"admin">>,
                   <<"tasks:create", "tasks:read", "tasks:update",
                     "tasks:delete", "users:read", "users:update",
                     "users:delete">>, now), getJWTSecret)>>

DeleteRoute == CHOOSE r \in RouteTable : r.handler = "DeleteTask"

NextStore ==
    \/ \E b \in RegisterRequests, n, e, r, c \in BOOLEAN :
          Registration(b, n, e, r, c)
    \/ AssignRole("alice", "admin")
    \/ \E r \in RoleNames : RevokeRole("alice", r)
    \/ Login("alice", Password("alice"), TRUE, TRUE)
    \/ \E ok \in BOOLEAN : Serve(AdminHeader, DeleteRoute, UUIDString(1), NoBody, ok)
    \/ \E ok \in BOOLEAN : Write(ok)
    \/ Finish

SpecStore == Init /\ [][NextStore]_vars

\* The same changes of the store, one at a time between requests: a user
\* registers, alice's roles are assigned and revoked, alice logs in, and the
\* administrator deletes a task.
NextDecision ==
    \/ \E c \in BOOLEAN :
          Registration(RegisterRequest("carol", "carol"), TRUE, TRUE, TRUE, c)
    \/ req.pc = "idle" /\ AssignRole("alice", "admin")
    \/ \E r \in RoleNames : req.pc = "idle" /\ RevokeRole("alice", r)
    \/ req.pc = "idle" /\ Login("alice", Password("alice"), TRUE, TRUE)
    \/ \E ok \in BOOLEAN : Serve(AdminHeader, DeleteRoute, UUIDString(1), NoBody, ok)
    \/ \E ok \in BOOLEAN : Write(ok)
    \/ Finish

SpecDecision == Init /\ [][NextDecision]_vars

\* The user routes and the list of all tasks, one request at a time.
ListRoute == CHOOSE r \in RouteTable : r.handler = "GetTasks"

NextUsers ==
    \/ \E h \in Headers, r \in UserRoutes \cup {ListRoute}, ok \in BOOLEAN :
          \E id \in RouteParams(r) : Serve(h, r, id, NoBody, ok)
    \/ \E ok \in BOOLEAN : DeleteUserRow(ok)
    \/ Finish

SpecUsers == InitGate /\ [][NextUsers]_vars

\* A token in use while the store changes under it: alice logs in and
\* presents the access token of the login, and a token of this server with
\* her role and permissions, on a route behind AuthMiddleware alone and on a
\* route behind a permission gate; between requests her refresh token is
\* redeemed, her roles are changed, the administrator deletes her, and the
\* clock runs.
LiveRoutes ==
    {r \in UserRoutes : r.handler = "GetUserProfile"}
    \cup {r \in RouteTable : r.handler = "GetTaskByID"}

LiveHeaders ==
    { <<Word("Bearer"), Space, login.access>>,
      <<Word("Bearer"), Space,
        Jwt(ClaimsOf("alice", <<"user">>,
                     <<"tasks:create", "tasks:read", "tasks:update",
                       "tasks:delete">>, login.access.claims.iat),
            getJWTSecret)>> }

UserDeleteRoute == CHOOSE r \in UserRoutes : r.handler = "DeleteUser"

NextLive ==
    \/ req.pc = "idle" /\ Login("alice", Password("alice"), TRUE, TRUE)
    \/ req.pc = "idle" /\ RefreshLookup("w1", login.refresh, TRUE)
    \/ RefreshGetUser("w1", TRUE)
    \/ RefreshGenerate("w1", TRUE)
    \/ RefreshDelete("w1", TRUE)
    \/ req.pc = "idle" /\ AssignRole("alice", "admin")
    \/ req.pc = "idle" /\ RevokeRole("alice", "user")
    \/ Serve(AdminHeader, UserDeleteRoute, UUIDString("alice"), NoBody, TRUE)
    \/ \E ok \in BOOLEAN : DeleteUserRow(ok)
    \/ /\ login.status = 200
       /\ \E h \in LiveHeaders, r \in LiveRoutes :
             \E id \in RouteParams(r) : Serve(h, r, id, NoBody, TRUE)
    \/ Finish
    \/ req.pc = "idle" /\ Tick

SpecLive == Init /\ [][NextLive]_vars

\* Every gate of the middleware package, mounted on a route of its own
\* without AuthMiddleware in front and with it, on a path with the parameter
\* and on one without.
GateKinds ==
    { Role(<<"admin", "user">>), Perm("tasks", "read"),
      RolePerm("admin", "users", "read"), Own("user_id"),
      Gate("RequireTaskAccess", <<>>, "", "", ""),
      Gate("RequireUserManagementAccess", <<>>, "", "", ""),
      Gate("RequireTaskManagementAccess", <<>>, "", "", "") }

BareRoutes ==
    { Route("GET /bare", chain, "Dashboard", param) :
          chain \in {<<g>> : g \in GateKinds} \cup {<<Auth, g>> : g \in GateKinds},
          param \in BOOLEAN }

NextBare ==
    \/ \E h \in CallerHeaders, r \in BareRoutes :
          \E id \in IF r.param THEN {UUIDString("alice"), OtherText}
                     ELSE {EmptyString} :
              Serve(h, r, id, NoBody, TRUE)
    \/ Finish

SpecBare == InitGate /\ [][NextBare]_vars

\* Two requests at a time on the routes that write a task: the request in
\* hand, between whose ownership check and write the store can change, and
\* an administrator's request that reassigns or deletes a task.
RaceRoutes == {r \in RouteTable : r.handler \in {"UpdateTask", "DeleteTask"}}

NextRace ==
    \/ \E h \in CallerHeaders, r \in RaceRoutes, ok \in BOOLEAN :
          \E id \in {UUIDString(n) : n \in TaskIds}, b \in Bodies(r) :
              Serve(h, r, id, b, ok)
    \/ \E ok \in BOOLEAN : Write(ok)
    \/ \E handler \in {"UpdateTask", "DeleteTask"}, n \in TaskIds,
          owner \in {"alice", "bob"} : OtherWrite(handler, n, owner)
    \/ Finish

SpecRace == InitGate /\ [][NextRace]_vars

\* Rotation with two users: alice and bob log in, and refresh tokens are
\* redeemed one call at a time, every store call succeeding or failing.
NextIdentity ==
    \/ \E u \in {"alice", "bob"}, c \in BOOLEAN :
          Login(u, Password(u), TRUE, c)
    \/ \E v \in RefreshStrings, ok \in BOOLEAN : RefreshLookup("w1", v, ok)
    \/ \E ok \in BOOLEAN : RefreshGetUser("w1", ok)
    \/ \E ok \in BOOLEAN : RefreshGenerate("w1", ok)
    \/ \E ok \in BOOLEAN : RefreshDelete("w1", ok)

SpecIdentity == Init /\ [][NextIdentity]_vars

\* Registrations, two at a time: the request in hand, between whose lookups
\* and insert another registration can be served, every store call
\* succeeding or failing.
InitRegister ==
    /\ now = 0
    /\ users = SeedUserRows
    /\ userRoles = SeedUserRoles
    /\ tokens = {}
    /\ nextUUID = 0
    /\ rw = [w \in Workers |-> IdleWorker]
    /\ login = NoLogin
    /\ redeemed = [ok |-> {}, deleted |-> {}]
    /\ tasks = SeedTasks
    /\ req = IdleRequest

NextRegister ==
    \/ \E b \in NewRegisterRequests, n, e \in BOOLEAN :
          RegistrationLookups(b, n, e)
    \/ \E r, c \in BOOLEAN : RegistrationCreate(r, c)
    \/ \E b \in NewRegisterRequests, r, c \in BOOLEAN :
          OtherRegistration(b, r, c)
    \/ Finish

SpecRegister == InitRegister /\ [][NextRegister]_vars

\* The task routes: tasks are created, read, updated and deleted by their
\* owners, by other users and by the administrator, one request at a time.
NextTasks ==
    \/ \E h \in CallerHeaders, r \in TaskRoutes, ok \in BOOLEAN :
          \E id \in RouteParams(r), b \in Bodies(r) : Serve(h, r, id, b, ok)
    \/ \E ok \in BOOLEAN : Write(ok)
    \/ \E n \in 1..MaxTasks, ok \in BOOLEAN : Insert(n, ok)
    \/ Finish

SpecTasks == InitGate /\ [][NextTasks]_vars

-----------------------------------------------------------------------------
(* Single-use rotation *)

NoPair(rec) == rec.access = NoToken /\ rec.refresh = EmptyString

C2_AtMostOneConcurrentSuccess ==
    \A w1, w2 \in Workers :
        (/\ w1 # w2
         /\ rw[w1].pc = "done" /\ rw[w2].pc = "done"
         /\ rw[w1].v = rw[w2].v
         /\ rw[w1].overlapped /\ rw[w2].overlapped)
            => ~(rw[w1].status = 200 /\ rw[w2].status = 200)

-----------------------------------------------------------------------------
(* Issued claims *)

Range(seq) == {seq[i] : i \in 1..Len(seq)}

\* The responses that carry a token pair: the latest login, and the refresh
\* request when it has succeeded.
Pairs ==
    (IF login.status = 200 THEN {[access |-> login.access, held |-> login.held]}
     ELSE {})
    \cup {[access |-> rw[w].access, held |-> rw[w].held] :
             w \in {x \in Workers : rw[x].pc = "done" /\ rw[x].status = 200}}

\* C4 as stated: validating an issued access token returns claims whose roles
\* and permissions are exactly the sets the user held at issuance, whatever
\* the store says by then.
C4_RoundTripReturnsHeldSets ==
    \A p \in Pairs :
        now < p.access.claims.exp
            => LET got == ValidateAccessToken(p.access, now)
               IN  /\ got.err = "nil"
                   /\ Range(got.claims.roles) = p.held.roles
                   /\ Range(got.claims.permissions) = p.held.permissions

\* C5 as stated: an issued access token carries the roles assigned to the user
\* at that moment and the de-duplicated union of those roles' permissions.
C5_TokenCarriesRolesAndPermissions ==
    \A p \in Pairs :
        LET c == p.access.claims
        IN  /\ Range(c.roles) = p.held.roles
            /\ Range(c.permissions) = p.held.permissions
            /\ Len(c.roles) = Cardinality(p.held.roles)
            /\ Len(c.permissions) = Cardinality(p.held.permissions)


-----------------------------------------------------------------------------
(* Requests through the gates *)

Served == req.pc # "idle"

Ran(name) == Contains(req.trail, name)

RequiredMessage == "authorization header is required"

\* The gate a one-gate route puts behind AuthMiddleware
RouteGate == req.route.chain[2]

\* The gate behind AuthMiddleware let the request through to the handler.
Passed == ~req.aborted /\ req.trail = <<"AuthMiddleware", RouteGate.kind, req.route.handler>>

Forbidden == req.aborted /\ req.status = 403 /\ ~Ran(req.route.handler)

HasRole(role) == role \in Range(req.roles)

HasPermission(resource, action) ==
    (resource \o ":" \o action) \in Range(req.permissions)

\* C6: ValidateAccessToken reports ExpiredToken for a token signed with the
\* server's key whose expiry has passed, and InvalidToken for text that is no
\* token and for a token signed with another key, expired or not; the two
\* errors are different values.
C6_ExpiredAndInvalidAreTold ==
    /\ ErrExpiredToken # ErrInvalidToken
    /\ req.verr # "" =>
          LET tok == Split(req.header)[2]
          IN  /\ (tok.t = "jwt" /\ tok.sig = getJWTSecret /\ tok.claims.exp < now)
                    => req.verr = ErrExpiredToken
              /\ (tok.t # "jwt" \/ tok.sig # getJWTSecret)
                    => req.verr = ErrInvalidToken
              /\ (tok.t = "jwt" /\ tok.sig = getJWTSecret /\ now < tok.claims.exp)
                    => req.verr = "nil"

C6_Witness ==
    /\ req.verr = ErrInvalidToken
    /\ LET tok == Split(req.header)[2]
       IN  tok.t = "jwt" /\ tok.sig # getJWTSecret /\ tok.claims.exp < now

\* C7: AuthMiddleware answers 401 "authorization header is required" to a
\* request without Authorization header, 401 with another message to a header
\* that is not two space-separated parts of which the first is "Bearer", and
\* 401 with the validation error to a token that ValidateAccessToken refuses;
\* each time the chain is aborted and nothing behind AuthMiddleware runs.
C7_AuthMiddlewareRefuses ==
    (Served /\ Ran("AuthMiddleware")) =>
        LET parts == Split(req.header)
            twoParts == Len(parts) = 2 /\ parts[1] = Word("Bearer")
            refused == /\ req.status = 401
                       /\ req.aborted
                       /\ req.trail = <<"AuthMiddleware">>
        IN  /\ req.header = <<>> => refused /\ req.error = RequiredMessage
            /\ (req.header # <<>> /\ ~twoParts)
                  => refused /\ req.error # RequiredMessage
            /\ (twoParts /\ ValidateAccessToken(parts[2], now).err # "nil")
                  => /\ refused
                     /\ req.error = ValidateAccessToken(parts[2], now).err

C7_Witness ==
    /\ Served
    /\ req.header = <<>>
    /\ Len(req.route.chain) = 2
    /\ req.status = 401
    /\ req.aborted

\* C8: behind AuthMiddleware, RequireRole(allowed...) lets the request on to
\* the handler exactly when a role of the claims is one of the allowed roles,
\* and otherwise answers 403 and aborts.
C8_RequireRoleIffIntersects ==
    (Served /\ Ran("RequireRole")) =>
        IF Range(req.roles) \cap Range(RouteGate.roles) # {}
        THEN Passed
        ELSE Forbidden

C8_Witness ==
    /\ Served
    /\ Ran("RequireRole")
    /\ RouteGate.roles = <<"auditor", "admin">>
    /\ req.roles = <<"user", "admin">>
    /\ Passed

\* C9: behind AuthMiddleware, RequirePermission(resource, action) lets the
\* request on to the handler exactly when "resource:action" is one of the
\* permissions of the claims, and otherwise answers 403 and aborts.
C9_RequirePermissionIffMember ==
    (Served /\ Ran("RequirePermission")) =>
        IF HasPermission(RouteGate.resource, RouteGate.action)
        THEN Passed
        ELSE Forbidden

C9_Witness ==
    /\ Served
    /\ Ran("RequirePermission")
    /\ RouteGate.resource = "tasks" /\ RouteGate.action = "update"
    /\ req.permissions = <<"tasks:read">>
    /\ Forbidden

\* C10: behind AuthMiddleware, RequireRoleAndPermission(role, resource,
\* action) lets the request on exactly when the claims have the role and the
\* permission; without the role the answer is 403 "role required", whether or
\* not the permission is there, and with the role but without the permission
\* it is 403 "permission required".
C10_RoleIsCheckedFirst ==
    (Served /\ Ran("RequireRoleAndPermission")) =>
        LET role == HasRole(RouteGate.role)
            perm == HasPermission(RouteGate.resource, RouteGate.action)
        IN  /\ Passed <=> (role /\ perm)
            /\ ~role => /\ Forbidden
                        /\ req.error = "insufficient permissions - role required"
            /\ (role /\ ~perm)
                  => /\ Forbidden
                     /\ req.error = "insufficient permissions - permission required"

C10_Witness ==
    /\ Served
    /\ Ran("RequireRoleAndPermission")
    /\ ~HasRole(RouteGate.role)
    /\ ~HasPermission(RouteGate.resource, RouteGate.action)
    /\ req.error = "insufficient permissions - role required"

TaskHandlers == {"GetTaskByID", "UpdateTask", "DeleteTask"}

\* C3: when GetTaskByID, UpdateTask or DeleteTask has loaded an existing task
\* for a caller who came through AuthMiddleware and the route's permission
\* gate, the caller goes on if the claims have the role admin or the task's
\* user_id is the caller's; any other caller is answered 403, gets no task
\* back, and the task stays in the store as it was.
C3_OwnerOrAdminOnly ==
    (Served /\ req.route.handler \in TaskHandlers /\ req.task.exists) =>
        LET taskID == FromString(req.id).uuid
        IN  IF HasRole("admin") \/ req.task.user_id = req.user_id
            THEN /\ req.status # 403
                 /\ req.route.handler = "GetTaskByID"
                        => req.status = 200 /\ req.out = req.task
                 /\ req.route.handler # "GetTaskByID"
                        => \/ req.pc = "write"
                           \/ req.status \in {200, 204, 400, 500}
            ELSE /\ req.status = 403
                 /\ req.pc = "done"
                 /\ req.out = NoTask
                 /\ tasks[taskID] = req.task

C3_Witness ==
    /\ Served
    /\ req.route.handler = "DeleteTask"
    /\ req.task.exists
    /\ req.user_id = "bob"
    /\ req.task.user_id = "alice"
    /\ req.status = 403
    /\ tasks[1].exists

\* C11: behind AuthMiddleware, RequireOwnershipOrAdmin(param) lets a caller
\* with the role admin on whatever the URL parameter is, missing or malformed
\* included; any other caller is answered 400 when the parameter is empty or
\* no well-formed identifier, is let on when it is the caller's user_id, and
\* is answered 403 when it is another identifier.
C11_OwnershipOrAdmin ==
    (Served /\ Ran("RequireOwnershipOrAdmin")) =>
        LET resourceID == IF req.route.param THEN req.id ELSE EmptyString
        IN  IF HasRole("admin") THEN Passed
            ELSE IF resourceID.kind # "uuid"
            THEN /\ req.aborted
                 /\ req.status = 400
                 /\ ~Ran(req.route.handler)
            ELSE IF resourceID.id = req.user_id THEN Passed
            ELSE Forbidden

C11_Witness ==
    /\ Served
    /\ Ran("RequireOwnershipOrAdmin")
    /\ HasRole("admin")
    /\ req.id = OtherText
    /\ Passed

CarriesIssuedToken ==
    /\ Served
    /\ login.status = 200
    /\ req.header = <<Word("Bearer"), Space, login.access>>
    /\ req.verr = "nil"

\* C13 as stated: the access token issued at login for a user whose only role
\* is user is answered 403 by RequireRoleAndPermission("admin", "tasks",
\* "read") and by RequireRole("admin"), and is let through by
\* RequirePermission("tasks", "read").
C13_UserTokenThroughTheGates ==
    (CarriesIssuedToken /\ login.held.roles = {"user"}) =>
        /\ RouteGate = RolePerm("admin", "tasks", "read") => Forbidden
        /\ RouteGate = Role(<<"admin">>) => Forbidden
        /\ RouteGate = Perm("tasks", "read") => Passed

-----------------------------------------------------------------------------
(* Refresh: what the caller is told *)

\* The step is worker w's row lookup, the first step of a RefreshToken call.
LookupStep(w) == ~InFlight(w) /\ rw'[w] # rw[w]

\* v is text that is no identifier, an identifier no token was ever issued
\* with, or the value of a token whose row a refresh has deleted.
Malformed(v) == v.kind = "text"

NeverIssued(v) == v.kind = "uuid" /\ v.id > nextUUID

Consumed(v) == v \in redeemed.deleted

ExpiryStep(w) == rw[w].pc = "found" /\ rw'[w] # rw[w]

\* C15: on a stored refresh token, RefreshToken fails with RefreshTokenExpired
\* exactly when the clock is strictly after the row's expires_at, so a token
\* presented at the instant expires_at goes on; when it fails so, no pair is
\* returned and no row is added to the store.
C15_ExpiredStrictlyAfter ==
    [][\A w \in Workers :
          ExpiryStep(w) =>
              /\ rw'[w].err = "refresh token expired"
                    <=> now > rw[w].row.expires_at
              /\ now = rw[w].row.expires_at
                    => rw'[w].pc = "user" \/ rw'[w].err = "internal server error"
              /\ rw'[w].err = "refresh token expired"
                    => /\ rw'[w].pc = "done"
                       /\ rw'[w].status = 401
                       /\ NoPair(rw'[w])
                       /\ tokens' = tokens
                       /\ nextUUID' = nextUUID]_vars

C15_Witness ==
    /\ rw["w1"].pc = "user"
    /\ \E r \in tokens : r.refresh_token = rw["w1"].v.id /\ r.expires_at = now
    /\ now > 0

\* The refresh-token rows of user u in a store
RowsOf(rows, u) == {r \in rows : r.user_id = u}

\* The step is worker w's GenerateToken, or its delete of the old row.
MintStep(w) == rw[w].pc = "user" /\ rw'[w].pc = "minted"

DeleteStep(w) == rw[w].pc = "minted" /\ rw'[w].pc = "done"

\* C16 as stated: a RefreshToken call that succeeds with no store failure
\* leaves the user with as many rows as before: its mint adds exactly one row
\* for the user, and its delete takes the row of the presented value out of
\* the store, one row less for the user.
C16_OneRowInOneRowOut ==
    [][\A w \in Workers :
          /\ MintStep(w) =>
                /\ Cardinality(RowsOf(tokens', rw[w].user))
                      = Cardinality(RowsOf(tokens, rw[w].user)) + 1
                /\ tokens \subseteq tokens'
          /\ (DeleteStep(w) /\ ~rw'[w].delFailed) =>
                /\ \A r \in tokens' : r.refresh_token # rw[w].v.id
                /\ Cardinality(RowsOf(tokens', rw[w].user))
                      = Cardinality(RowsOf(tokens, rw[w].user)) - 1]_vars

-----------------------------------------------------------------------------
(* Login: what the caller is told *)

\* The step is a login that was answered 401.
RefusedLoginStep ==
    /\ login'.status = 401
    /\ rw' = rw /\ req' = req /\ now' = now

\* C17: LoginUser returns one and the same error for a username that does not
\* exist and for an existing username with a wrong password, and that error
\* is InvalidCredentials, "invalid username or password", whenever the store
\* read succeeds; a login refused by LoginUser returns no token and leaves
\* the store as it was.
C17_SameErrorForBothFactors ==
    [][/\ \A dbOK \in BOOLEAN :
             LoginUser("mallory", Password("mallory"), dbOK)
                = LoginUser("alice", "wrong", dbOK)
       /\ LoginUser("mallory", Password("mallory"), TRUE)
             = "invalid username or password"
       /\ RefusedLoginStep =>
             /\ login'.err = LoginUser(login'.username, "wrong", TRUE)
                   \/ login'.err = "internal server error"
             /\ login'.access = NoToken
             /\ login'.refresh = EmptyString
             /\ UNCHANGED <<users, userRoles, tokens, nextUUID, tasks>>]_vars

C17_Witness ==
    /\ login.username = "mallory"
    /\ login.status = 401
    /\ login.err = "invalid username or password"

-----------------------------------------------------------------------------
(* Tasks: who owns what is created *)

\* C18: a task that CreateTask stores for a caller without the role admin
\* has the caller's user_id as its owner, whatever user_id the request body
\* carries; no row of another owner appears in the table through it, and no
\* row that was there is changed.
C18_CreatedTaskIsTheCallers ==
    [][(req.pc = "write" /\ req.route.handler = "CreateTask") =>
          /\ \A n \in DOMAIN tasks : tasks'[n] = tasks[n]
          /\ \A n \in DOMAIN tasks' \ DOMAIN tasks :
                /\ req'.status = 201
                /\ ~IsAdmin(req) => tasks'[n].user_id = req.user_id
          /\ (req'.status = 201 /\ ~IsAdmin(req)) =>
                /\ req'.out.user_id = req.user_id
                /\ \E n \in DOMAIN tasks' \ DOMAIN tasks : tasks'[n] = req'.out]_vars

C18_Witness ==
    /\ req.pc = "done"
    /\ req.route.handler = "CreateTask"
    /\ req.status = 201
    /\ req.user_id = "alice"
    /\ req.body.user_id = "bob"
    /\ \E n \in DOMAIN tasks : n \notin TaskIds /\ tasks[n].user_id = "alice"

\* The task table has a row with this id that is not deleted.
TaskExists(taskID) == taskID \in DOMAIN tasks /\ tasks[taskID].exists

\* C19: when GetTaskByID, UpdateTask or DeleteTask runs for a well-formed
\* task id that has no row in the table, the caller is answered 404 "task
\* not found" whoever it is, never 403, and the table is not touched.
C19_NotFoundBeforeOwnership ==
    [][(/\ req.pc = "idle"
        /\ req'.pc # "idle"
        /\ req'.route.handler \in TaskHandlers
        /\ Contains(req'.trail, req'.route.handler)
        /\ req'.id.kind = "uuid"
        /\ ~TaskExists(req'.id.id))
          => /\ req'.status = 404
             /\ req'.error = "task not found"
             /\ req'.pc = "done"
             /\ req'.out = NoTask
             /\ tasks' = tasks]_vars

C19_Witness ==
    /\ req.pc = "done"
    /\ req.route.handler = "DeleteTask"
    /\ Ran("DeleteTask")
    /\ req.id = UUIDString(3)
    /\ ~HasRole("admin")
    /\ req.user_id = "bob"
    /\ req.status = 404

-----------------------------------------------------------------------------
(* The chain as a whole *)

\* The handlers of the request's route in the order gin runs them
Order(r) == [i \in 1..Len(r.chain) |-> r.chain[i].kind] \o <<r.handler>>

\* The last handler of the chain that ran
Last(r) == r.trail[Len(r.trail)]

FailureStatus == {400, 401, 403}

\* C20: the handlers of a route run in the order of its chain; the route
\* handler runs only when AuthMiddleware and every gate before it ran and
\* none aborted, and the caller is authenticated by then; once a gate has
\* aborted, nothing behind it runs, the response is that gate's 401, 403 or
\* 400, the request is over, and the step has changed no table.
C20_FirstFailureEndsTheRequest ==
    [][(req.pc = "idle" /\ req'.pc # "idle") =>
          LET r == req'
              n == Len(r.trail)
          IN  /\ n >= 1
              /\ n <= Len(Order(r.route))
              /\ r.trail = SubSeq(Order(r.route), 1, n)
              /\ n >= 2 => r.keys
              /\ Contains(r.trail, r.route.handler) <=> ~r.aborted
              /\ ~r.aborted => n = Len(Order(r.route))
              /\ r.aborted =>
                    /\ n <= Len(r.route.chain)
                    /\ r.status \in FailureStatus
                    /\ r.status = 401 <=> Last(r) = "AuthMiddleware"
                    /\ r.status = 400 => Last(r) = "RequireOwnershipOrAdmin"
                    /\ r.error # ""
                    /\ r.pc = "done"
                    /\ r.out = NoTask
                    /\ r.task = NoTask
              /\ r.aborted => UNCHANGED <<users, userRoles, tokens, tasks>>]_vars

\* A request got through AuthMiddleware and the first gate of a route that
\* deletes, was refused by the second gate, and the task is still there.
C20_Witness ==
    /\ req.pc = "done"
    /\ req.route.handler = "DeleteTask"
    /\ req.trail = <<"AuthMiddleware", "RequireRole", "RequirePermission">>
    /\ req.aborted
    /\ req.status = 403
    /\ req.id = UUIDString(1)
    /\ tasks[1].exists

-----------------------------------------------------------------------------
(* Registration *)

RegistrationStep == req.pc = "idle" /\ req'.route = RegisterRoute

\* C24: a registration that is answered 201 has added exactly one user, and
\* that user holds exactly the role user: not admin, and not no role at all;
\* no other user's roles change, and a registration that is refused adds no
\* user and no role.
C24_RegisteredWithRoleUser ==
    [][RegistrationStep =>
          IF req'.status = 201
          THEN /\ users' = users \cup {req'.body.username}
               /\ req'.body.username \notin users
               /\ userRoles'[req'.body.username] = {"user"}
               /\ Cardinality(userRoles'[req'.body.username]) = 1
               /\ \A u \in DOMAIN userRoles : userRoles'[u] = userRoles[u]
          ELSE UNCHANGED <<users, userRoles>>]_vars

C24_Witness ==
    /\ req.pc = "done"
    /\ req.route = RegisterRoute
    /\ req.status = 201
    /\ "carol" \in users
    /\ userRoles["carol"] = {"user"}

-----------------------------------------------------------------------------
(* The gates and the store *)

\* What the gates of a route decide for a request: the context they leave,
\* with whether it was let through, which gates ran, and the answer.
Decision(header, route, id, t) ==
    RunChain(route.chain, NewContext(header, route, id, NoBody), t)

\* One route for each gate, and the tokens and parameters sent to them
DecisionRoutes ==
    { r \in RouteTable : r.handler \in {"GetTaskByID", "GetTasks", "Dashboard"} }
    \cup { r \in OwnerRoutes : r.param }

DecisionHeaders ==
    { <<>>, AdminHeader }
    \cup { <<Word("Bearer"), Space,
             Jwt(ClaimsOf("alice", r, <<"tasks:read">>, now), getJWTSecret)>> :
              r \in {<<"user">>, <<"admin">>} }

DecisionParams(route) ==
    IF route \in OwnerRoutes THEN {UUIDString("alice"), UUIDString("bob")}
    ELSE {UUIDString(1)}

StoreChanges == <<users, userRoles, tokens, tasks>>' # <<users, userRoles, tokens, tasks>>

-----------------------------------------------------------------------------
(* Store failures *)

\* C22: a login or a refresh that is answered 401 failed with
\* InvalidCredentials, InvalidRefreshToken or RefreshTokenExpired; a failure
\* of the store (other than record-not-found) during login or refresh is
\* answered with a 500-class status.
C22_StoreFailureIsServerError ==
    /\ login.status = 401 => login.err = "invalid username or password"
    /\ login.err \in {"internal server error", "failed to generate tokens"} =>
          login.status >= 500
    /\ \A w \in Workers :
          rw[w].pc = "done" =>
              /\ rw[w].status = 401 =>
                    rw[w].err \in {"invalid refresh token", "refresh token expired"}
              /\ rw[w].err \in {"internal server error",
                                "failed to store refresh token"} =>
                    rw[w].status >= 500

-----------------------------------------------------------------------------
(* The served route table *)

\* The permission that goes with the role admin on the routes for
\* administrators
AdminPermission ==
    [GetUsers |-> "users:read", GetUserProfileByUserId |-> "users:read",
     DeleteUser |-> "users:delete", GetTasks |-> "tasks:read"]

AdminHandlers == DOMAIN AdminPermission

\* The caller's token was accepted by AuthMiddleware.
Authenticated == req.keys

\* What the claim says of every route but GET /users/profile: all of /tasks
\* and /users is behind AuthMiddleware, and the routes for administrators let
\* through exactly the tokens with the role admin and the matching
\* permission, answering 403 to every other authenticated caller.
AdminOnlyRoutes ==
    /\ \A r \in RouteTable \cup {CreateRoute} \cup UserRoutes :
          Len(r.chain) >= 1 /\ r.chain[1] = Auth
    /\ Served =>
          /\ req.trail[1] = "AuthMiddleware"
          /\ ~Authenticated =>
                req.aborted /\ req.status = 401 /\ ~Ran(req.route.handler)
          /\ (Authenticated /\ req.route.handler \in AdminHandlers) =>
                IF /\ HasRole("admin")
                   /\ AdminPermission[req.route.handler] \in Range(req.permissions)
                THEN ~req.aborted /\ Ran(req.route.handler)
                ELSE /\ req.aborted
                     /\ req.status = 403
                     /\ ~Ran(req.route.handler)
                     /\ req.pc = "done"

OwnProfile == Served /\ Authenticated /\ req.route.handler = "GetUserProfile"

\* C23 as stated: with the above, GET /users/profile is answered 200 to
\* every authenticated caller.
C23_ProfileSucceedsForEveryCaller ==
    /\ AdminOnlyRoutes
    /\ OwnProfile => req.status = 200

\* C23: with the above, GET /users/profile is refused to no authenticated
\* caller: its handler runs whatever roles and permissions the token has,
\* and answers 200 only when the caller's row is in users, 404 only when it
\* is not, and 500 when the store fails.
C23_AdminOnlyAndOwnProfile ==
    /\ AdminOnlyRoutes
    /\ OwnProfile =>
          /\ ~req.aborted
          /\ Ran("GetUserProfile")
          /\ req.status \in {200, 404, 500}
          /\ req.status = 200 => req.user_id \in users
          /\ req.status = 404 => req.user_id \notin users
          /\ req.status = 500 => req.error = "failed to get user profile"

\* alice was deleted by an administrator (no one else gets to DeleteUser);
\* her token, which has only the role user, is still let through to
\* GET /users/profile, and the answer is 404.
C23_Witness ==
    /\ req.pc = "done"
    /\ req.route.handler = "GetUserProfile"
    /\ req.user_id = "alice"
    /\ req.roles = <<"user">>
    /\ Ran("GetUserProfile")
    /\ req.status = 404
    /\ "alice" \notin users

-----------------------------------------------------------------------------
(* The signing secret *)

\* C25: when JWT_SECRET is not set, no token is signed and none is verified
\* with the constant of the source: no login ends with an access token, and
\* no request gets through AuthMiddleware.
C25_MissingSecretFails ==
    EnvJWTSecret = "" =>
        /\ login.status = 200 => login.access.sig # "your-secret-key"
        /\ \A i \in 1..Len(req.header) :
              (req.header[i].t = "jwt" /\ req.header[i].sig = "your-secret-key")
                  => ~req.keys

-----------------------------------------------------------------------------
(* The delete of the old row *)

\* Worker w's delete finds no row to delete: another redemption has taken it.
ZeroRowDelete(w) ==
    /\ DeleteStep(w)
    /\ ~rw'[w].delFailed
    /\ rw[w].row \notin tokens

\* C26: a RefreshToken call whose delete of the old row affects zero rows
\* returns InvalidRefreshToken and no pair.
C26_ZeroRowDeleteIsInvalid ==
    [][\A w \in Workers :
          ZeroRowDelete(w) =>
              /\ rw'[w].err = "invalid refresh token"
              /\ rw'[w].status = 401
              /\ NoPair(rw'[w])]_vars

\* The row of this refresh-token value is in the store.
Stored(v) == \E r \in tokens : r.refresh_token = v.id

\* C27: when the delete of the old row fails with a store error after the
\* new pair was minted, the call still answers 200 with the pair it minted,
\* and the rows of the old and of the new refresh token are both in the
\* store afterwards, each redeemable like any stored token.
C27_FailedDeleteStillSucceeds ==
    [][\A w \in Workers :
          (DeleteStep(w) /\ rw'[w].delFailed) =>
              /\ rw'[w].status = 200
              /\ rw'[w].err = "nil"
              /\ rw[w].refresh.kind = "uuid"
              /\ rw'[w].refresh = rw[w].refresh
              /\ rw'[w].access = rw[w].access
              /\ rw'[w].access # NoToken
              /\ tokens' = tokens
              /\ Stored(rw[w].v)'
              /\ Stored(rw[w].refresh)'
              /\ rw[w].v # rw[w].refresh]_vars

\* The old token was redeemed a second time, with success, after the call
\* whose delete failed.
C27_Witness ==
    /\ rw["w1"].pc = "done"
    /\ rw["w1"].status = 200
    /\ rw["w1"].afterRedeemed
    /\ rw["w1"].v \in redeemed.ok \ redeemed.deleted

-----------------------------------------------------------------------------
(* Issuance when the store fails *)

\* The row of this refresh-token value is among these rows.
StoredIn(rows, v) == \E r \in rows : r.refresh_token = v.id

\* The step is a POST /auth/login that got as far as GenerateToken.
IssuanceAtLogin == login' # login /\ login'.status \in {200, 500}

\* The step is worker w's GenerateToken.
IssuanceAtRefresh(w) == rw[w].pc = "user" /\ rw'[w] # rw[w]

\* C28: token issuance either stores the row of the refresh token it
\* returns, or fails: when db.Create fails, the caller gets an error
\* ("failed to generate tokens" from login, "failed to store refresh token"
\* from refresh), neither an access token nor a refresh token, and no row is
\* added to the store.
C28_NoPairWithoutRow ==
    [][/\ IssuanceAtLogin =>
             IF login'.status = 200
             THEN /\ ~NoPair(login')
                  /\ StoredIn(tokens', login'.refresh)
                  /\ ~StoredIn(tokens, login'.refresh)
             ELSE /\ login'.err = "failed to generate tokens"
                  /\ NoPair(login')
                  /\ tokens' = tokens
       /\ \A w \in Workers :
             IssuanceAtRefresh(w) =>
                 IF rw'[w].pc = "minted"
                 THEN /\ StoredIn(tokens', rw'[w].refresh)
                      /\ ~StoredIn(tokens, rw'[w].refresh)
                 ELSE /\ rw'[w].err = "failed to store refresh token"
                      /\ rw'[w].status # 200
                      /\ NoPair(rw'[w])
                      /\ tokens' = tokens]_vars

\* A login has failed at the insert of the row: the answer is 500 without
\* a pair, and the store holds no row.
C28_Witness ==
    /\ login.status = 500
    /\ login.err = "failed to generate tokens"
    /\ NoPair(login)
    /\ tokens = {}

-----------------------------------------------------------------------------
(* The claims attached to the request *)

\* The claims of the token the request came with
Embedded == req.header[3].claims

\* What a gate lets through, told from claims and the route parameter
Allows(g, claims, id) ==
    CASE g.kind = "RequireRole" ->
            Range(g.roles) \cap Range(claims.roles) # {}
      [] g.kind = "RequirePermission" ->
            (g.resource \o ":" \o g.action) \in Range(claims.permissions)
      [] g.kind = "RequireRoleAndPermission" ->
            /\ g.role \in Range(claims.roles)
            /\ (g.resource \o ":" \o g.action) \in Range(claims.permissions)
      [] g.kind = "RequireOwnershipOrAdmin" ->
            \/ "admin" \in Range(claims.roles)
            \/ id.kind = "uuid" /\ id.id = claims.user_id

\* C29: a request that AuthMiddleware accepted carries in its context the
\* user_id, username, roles and permissions of its token, unchanged; every
\* gate behind AuthMiddleware that ran let the request through exactly when
\* those claims allow it, and a task handler that loaded a task refused it
\* with 403 exactly when the claims have neither the role admin nor the
\* user_id of the task's owner.
C29_ContextCarriesTheTokenClaims ==
    (Served /\ req.keys) =>
        /\ Len(req.header) = 3
        /\ req.user_id = Embedded.user_id
        /\ req.username = Embedded.username
        /\ req.roles = Embedded.roles
        /\ req.permissions = Embedded.permissions
        /\ \A i \in 2..Len(req.route.chain) :
              i <= Len(req.trail) =>
                  (Len(req.trail) > i <=> Allows(req.route.chain[i], Embedded, req.id))
        /\ (Ran(req.route.handler) /\ req.task # NoTask) =>
              (req.status = 403 <=>
                  /\ "admin" \notin Range(Embedded.roles)
                  /\ req.task.user_id # Embedded.user_id)

\* bob's token with the roles user and admin got through both gates to
\* GetTaskByID and was given alice's task.
C29_Witness ==
    /\ req.pc = "done"
    /\ req.route.handler = "GetTaskByID"
    /\ Len(req.route.chain) = 3
    /\ req.keys
    /\ Embedded.user_id = "bob"
    /\ req.roles = <<"user", "admin">>
    /\ req.task.user_id = "alice"
    /\ req.status = 200

-----------------------------------------------------------------------------
(* Tasks: the owner stays *)

\* The step belongs to a request of a caller without the role admin.
NonAdminStep == req' # req /\ ~IsAdmin(IF req.pc = "idle" THEN req' ELSE req)

\* C30: no step of a request by a caller without the role admin changes the
\* owner of a stored task: a task that is still stored after the step has
\* the user_id it had before, and a task the step created has the caller's.
C30_OwnerIsImmutableForNonAdmins ==
    [][NonAdminStep =>
          /\ \A n \in DOMAIN tasks :
                (tasks[n].exists /\ tasks'[n].exists) =>
                    tasks'[n].user_id = tasks[n].user_id
          /\ \A n \in DOMAIN tasks :
                ~tasks[n].exists => tasks'[n] = tasks[n]
          /\ \A n \in DOMAIN tasks' \ DOMAIN tasks :
                tasks'[n].user_id = req.user_id]_vars

\* alice, who is no administrator, has updated her task; it has the new
\* title and is still hers.
C30_Witness ==
    /\ req.pc = "done"
    /\ req.route.handler = "UpdateTask"
    /\ req.status = 200
    /\ req.user_id = "alice"
    /\ ~IsAdmin(req)
    /\ tasks[1].title = "new"
    /\ tasks[1].user_id = "alice"

-----------------------------------------------------------------------------
(* Tasks: what an administrator creates *)

\* C31: CreateTask by a caller with the role admin does not force the owner
\* to the caller: when the body of an administrator's request carries an
\* owner user_id, the task is stored, and answered, with that owner.
C31_AdminCreatesForSuppliedOwner ==
    [][(/\ req.pc = "write"
        /\ req.route.handler = "CreateTask"
        /\ IsAdmin(req)
        /\ req.body.user_id # ""
        /\ req'.status = 201) =>
          /\ req'.out.user_id = req.body.user_id
          /\ \E n \in DOMAIN tasks' \ DOMAIN tasks :
                tasks'[n].user_id = req.body.user_id]_vars

-----------------------------------------------------------------------------
(* Tasks: the list of one user's tasks *)

\* The request in hand is a GET /users/:user_id/tasks that has been answered.
TasksByUserServed ==
    req.pc = "done" /\ req.route.handler = "GetTasksByUser"

\* C32: GetTasksByUser for a URL user id u returns the tasks of u only when
\* the caller has the role admin or the caller's user_id equals u: a 200
\* carries exactly the tasks of u and goes to such a caller only, and every
\* other authenticated caller is answered 403 and receives no task.
C32_TasksOfUserForOwnerOrAdmin ==
    (TasksByUserServed /\ FromString(req.id).err = "nil") =>
        LET u == FromString(req.id).uuid
        IN  /\ req.status = 200 =>
                  /\ req.keys
                  /\ IsAdmin(req) \/ req.user_id = u
                  /\ req.list = TasksOf(u)
            /\ req.status # 200 => req.list = {}
            /\ (req.keys /\ ~IsAdmin(req) /\ req.user_id # u) =>
                  req.status = 403 /\ req.list = {}

\* bob, with the permission to read tasks, has asked for the tasks of alice,
\* who has one: the handler has answered 403 with no task.
C32_Witness ==
    /\ TasksByUserServed
    /\ Ran("GetTasksByUser")
    /\ req.id = UUIDString("alice")
    /\ TasksOf("alice") # {}
    /\ req.user_id = "bob"
    /\ ~IsAdmin(req)
    /\ req.status = 403
    /\ req.list = {}

-----------------------------------------------------------------------------
(* Lifetimes of the two tokens of a pair *)

\* C33: the refresh token is long-lived relative to the access token issued
\* in the same call: the expires_at of its row is strictly later than the
\* exp of the access token, for the pair of a login and for the pair of a
\* refresh.
C33_RefreshOutlivesAccess ==
    /\ login.status = 200 =>
          \A r \in tokens :
              r.refresh_token = login.refresh.id =>
                  r.expires_at > login.access.claims.exp
    /\ \A w \in Workers :
          (rw[w].pc = "minted" \/ rw[w].status = 200) =>
              \A r \in tokens :
                  r.refresh_token = rw[w].refresh.id =>
                      r.expires_at > rw[w].access.claims.exp

-----------------------------------------------------------------------------
(* Access tokens are not looked up in the store *)

\* The token is signed by this server and has not expired.
LiveToken(tok) ==
    tok.t = "jwt" /\ tok.sig = getJWTSecret /\ now < tok.claims.exp

\* The request in hand has been answered and presented such a token.
ServedLive ==
    /\ req.pc = "done"
    /\ Len(req.header) = 3
    /\ req.header[1] = Word("Bearer")
    /\ LiveToken(req.header[3])

\* C34: an access token that has not expired keeps validating and keeps
\* passing the gates whatever has happened to the store: the token of a login
\* validates as long as the clock is before its exp, and a request presenting
\* an unexpired token gets its claims into the context and is stopped by a
\* gate only when the claims themselves do not satisfy it -- after the user
\* was deleted, after the user's roles were changed, and after the refresh
\* token issued with it was redeemed and rotated.
C34_LiveTokenSurvivesStoreChanges ==
    /\ (login.status = 200 /\ now < login.access.claims.exp) =>
          ValidateAccessToken(login.access, now) =
              [claims |-> login.access.claims, err |-> "nil"]
    /\ ServedLive =>
          /\ req.keys
          /\ req.user_id = Embedded.user_id
          /\ req.roles = Embedded.roles
          /\ req.permissions = Embedded.permissions
          /\ ~(req.aborted /\ req.status = 401)
          /\ req.aborted <=>
                \E i \in 2..Len(req.route.chain) :
                    ~Allows(req.route.chain[i], Embedded, req.id)

\* alice's refresh token was redeemed and rotated, her role user was revoked
\* and her row was deleted; her unexpired token with the role user and the
\* permission to read tasks has then read her task.
C34_Witness ==
    /\ ServedLive
    /\ login.status = 200
    /\ login.refresh \in redeemed.deleted
    /\ "alice" \notin users
    /\ "user" \notin userRoles["alice"]
    /\ Embedded.user_id = "alice"
    /\ Embedded.roles = <<"user">>
    /\ req.route.handler = "GetTaskByID"
    /\ ~req.aborted
    /\ req.status = 200

-----------------------------------------------------------------------------
(* Gates on a context without claims *)

\* C35: every gate fails closed: when a gate runs on a request whose
\* context carries no claims, it aborts the request with an error status and
\* the handler behind it does not run.  This is said of RequireRole,
\* RequirePermission, RequireRoleAndPermission, RequireOwnershipOrAdmin,
\* RequireUserManagementAccess, RequireTaskAccess and
\* RequireTaskManagementAccess.
C35_EveryGateFailsClosed ==
    \A g \in GateKinds :
        (req.pc = "done" /\ Ran(g.kind) /\ ~req.keys) =>
            /\ req.aborted
            /\ req.status \in {400, 401, 403}
            /\ ~Ran(req.route.handler)

-----------------------------------------------------------------------------
(* Tasks: the ownership check and the write *)

\* C36: under any interleaving of concurrent requests, the UpdateTask or
\* DeleteTask of a caller without the role admin changes a task only if the
\* caller owns that task at the moment of the write: no change to the task by
\* another request between the ownership check and the write lets the write
\* hit a task of another owner.
C36_WriteHitsOwnTaskOnly ==
    [][(/\ req.pc = "write"
        /\ req.route.handler \in {"UpdateTask", "DeleteTask"}
        /\ ~IsAdmin(req)
        /\ req'.pc = "done"
        /\ tasks' # tasks) =>
          tasks[FromString(req.id).uuid].user_id = req.user_id]_vars

-----------------------------------------------------------------------------
(* Refresh: what a failed call leaves behind *)

\* The step is one of worker w's call, and it returns an error to the caller.
ErrorReturn(w) ==
    /\ rw'[w] # rw[w]
    /\ rw'[w].pc = "done"
    /\ rw'[w].err # "nil"

\* C37: every RefreshTokens call that returns an error (malformed value,
\* unknown value, expired token, owning user not found, issuance failure)
\* leaves the set of refresh-token rows exactly as it was: no step of the
\* call before the mint changes the rows, the step that returns the error
\* does not, and a call that has minted returns no error.  A stored token
\* whose refresh failed is therefore still stored afterwards.
C37_FailedRefreshLeavesRows ==
    [][\A w \in Workers :
          /\ (rw'[w] # rw[w] /\ rw'[w].pc \in {"found", "user"}) =>
                tokens' = tokens
          /\ ErrorReturn(w) =>
                /\ rw[w].pc # "minted"
                /\ tokens' = tokens
                /\ StoredIn(tokens, rw'[w].v) => StoredIn(tokens', rw'[w].v)]_vars

\* A refresh of a stored, unexpired token has failed on the read of the user;
\* the row is still stored and still unexpired.
C37_Witness ==
    /\ rw["w1"].pc = "done"
    /\ rw["w1"].err = "internal server error"
    /\ rw["w1"].v.kind = "uuid"
    /\ Stored(rw["w1"].v)
    /\ ~Expired(FindToken(rw["w1"].v.id), now)

-----------------------------------------------------------------------------
(* Refresh: whose the new pair is *)

\* C38: refresh preserves identity: the access token and the new
\* refresh-token row produced by a successful RefreshTokens(v) belong to the
\* user_id of the row of v, at every link of a chain of refreshes that starts
\* from a login; the pair a call returns is the pair it minted, and no
\* refresh yields a token for another user.
C38_RefreshKeepsTheUser ==
    [][\A w \in Workers :
          /\ (rw[w].pc = "idle" \/ rw[w].pc = "done") /\ rw'[w].pc = "found" =>
                /\ rw'[w].row.refresh_token = rw'[w].v.id
                /\ rw'[w].row \in tokens
          /\ MintStep(w) =>
                /\ rw[w].row.refresh_token = rw[w].v.id
                /\ rw'[w].access.claims.user_id = rw[w].row.user_id
                /\ rw'[w].access.claims.username = Username(rw[w].row.user_id)
                /\ tokens' # tokens
                /\ \A r \in tokens' \ tokens :
                      /\ r.user_id = rw[w].row.user_id
                      /\ r.refresh_token = rw'[w].refresh.id
          /\ (DeleteStep(w) /\ rw'[w].status = 200) =>
                /\ rw'[w].access = rw[w].access
                /\ rw'[w].refresh = rw[w].refresh
                /\ \A r \in tokens' :
                      r.refresh_token = rw'[w].refresh.id =>
                          r.user_id = rw'[w].access.claims.user_id]_vars

\* alice and bob have logged in, bob last; alice's refresh token was
\* redeemed, and the pair that came back is alice's.
C38_Witness ==
    /\ login.status = 200
    /\ login.username = "bob"
    /\ rw["w1"].status = 200
    /\ rw["w1"].v \in redeemed.ok
    /\ rw["w1"].access.claims.user_id = "alice"
    /\ \E r \in tokens :
          r.refresh_token = rw["w1"].refresh.id /\ r.user_id = "alice"

-----------------------------------------------------------------------------
(* Registration: usernames and emails are unique *)

\* C39: after any interleaving of Registration requests, two of them for the
\* same username or email included, each passing its lookups before the
\* other inserts, no two stored users share a username and no two share an
\* email.
C39_UsernamesAndEmailsUnique ==
    \A a, b \in users :
        a # b => a.username # b.username /\ a.email # b.email

\* A registration for carol has passed its lookups and has not inserted yet,
\* and a user carol, created by another registration meanwhile, is stored.
C39_Witness ==
    /\ req.pc = "write"
    /\ req.route = RegisterRoute
    /\ req.body.username = "carol"
    /\ \E r \in users : r.username = "carol" /\ r.id \notin UserIds

====
